---- MODULE Spec2Model ----
(***************************************************************************)
(* A model of signac's Collection (src/signac/contrib/collection.py): an   *)
(* in-memory document collection with lazily maintained secondary indexes, *)
(* a MongoDB-style query engine and a newline-delimited JSON backing file. *)
(*                                                                         *)
(* Representation.                                                         *)
(*  - A JSON value is a tagged pair <<tag, payload>>: <<"int", n>>,        *)
(*    <<"str", s>>, <<"null", 0>>, <<"dict", f>> (f a function from key    *)
(*    strings to values), <<"list", seq>> and, before normalisation or as  *)
(*    an index key, <<"tuple", seq>>.                                      *)
(*  - A document is a function from key strings to values.                 *)
(*  - A filter mapping is <<"expr", seq>> with seq a sequence of           *)
(*    <<key, value>> pairs in the mapping's iteration order.  A filter or  *)
(*    index key is the sequence of its dot-separated segments, so that     *)
(*    '.'.join is \o and key.split('.') is Nodes.                          *)
(*  - The ordered dict _docs is the pair (docs, order): docs maps each id  *)
(*    to its document and order lists the ids in insertion order.          *)
(*  - The result of a call is <<"raise", kind>> or a tagged return value.  *)
(*                                                                         *)
(* Beside the collection the module holds three smaller machines, each     *)
(* with variables and a specification of its own: MemCache and             *)
(* CachedSyncedCollection (src/signac/core/caching.py) and the Job objects *)
(* of one job (src/src/compdb/contrib/job.py).                             *)
(***************************************************************************)
EXTENDS Integers, Sequences, FiniteSets, TLC

VARIABLES docs, order, dirty, indexes, requires_flush, closed, file, disk,
          op, ret, flushed, caller_filter,
          mem_data, misses, warned,
          data, backend, cache, suspend_sync,
          job_doc, instances

\* docs .. closed are the fields of the instance, file the file object it
\* holds, disk the content of the file; op, ret and flushed record the
\* history: the last call, what it returned, and whether flush() has
\* returned since the instance was created; caller_filter is the filter
\* object the caller passed to the last call, as the call left it
collection_vars == <<docs, order, dirty, indexes, requires_flush, closed,
                     file, disk, flushed, caller_filter>>

\* mem_data, misses and warned are the fields of a MemCache
\* (src/signac/core/caching.py)
memcache_vars == <<mem_data, misses, warned>>

\* data is what a root CachedSyncedCollection holds in memory, backend what
\* its backend stores, cache the entry of the collection in its cache, and
\* suspend_sync the counter _suspend_sync_ of the root and of a child of it
synced_vars == <<data, backend, cache, suspend_sync>>

\* job_doc is the document of one job in the jobs collection, instances the
\* Job objects created for it (src/src/compdb/contrib/job.py)
job_vars == <<job_doc, instances>>

vars == <<collection_vars, op, ret, memcache_vars, synced_vars, job_vars>>

----------------------------------------------------------------------------
(* Values *)

JInt(n) == <<"int", n>>
JStr(s) == <<"str", s>>
JNull == <<"null", 0>>
JDict(f) == <<"dict", f>>
JList(s) == <<"list", s>>
JTuple(s) == <<"tuple", s>>
Expr(s) == <<"expr", s>>

DictPlaceholder == <<"_DictPlaceholder", 0>>

primary_key == "_id"

Raise(kind) == <<"raise", kind>>
Raised(out) == out[1] = "raise"
ReturnNone == <<"None", 0>>

EmptyMap == [k \in {} |-> 0]

\* dict.setdefault(key, value)
SetDefault(doc, key, value) ==
    IF key \in DOMAIN doc THEN doc ELSE (key :> value) @@ doc

\* '.'.join(nodes) for a key given as its segments
RECURSIVE Join(_)
Join(nodes) ==
    IF Len(nodes) = 0 THEN ""
    ELSE IF Len(nodes) = 1 THEN nodes[1]
    ELSE nodes[1] \o "." \o Join(Tail(nodes))

\* key.split('.'): the empty string splits into one empty segment
Nodes(key) == IF key = <<>> THEN <<"">> ELSE key

\* json.loads(json.dumps(x)): tuples are encoded as arrays and come back as
\* lists; every other value of the model's domain comes back as it was
RECURSIVE JsonRoundTrip(_)
JsonRoundTrip(v) ==
    IF v[1] \in {"list", "tuple"}
    THEN JList([i \in 1..Len(v[2]) |-> JsonRoundTrip(v[2][i])])
    ELSE IF v[1] = "dict"
    THEN JDict([k \in DOMAIN v[2] |-> JsonRoundTrip(v[2][k])])
    ELSE IF v[1] = "expr"
    THEN Expr([i \in 1..Len(v[2]) |-> <<v[2][i][1], JsonRoundTrip(v[2][i][2])>>])
    ELSE v

JsonDoc(doc) == JsonRoundTrip(JDict(doc))[2]

RECURSIVE ToTuples(_)
ToTuples(l) ==
    IF l[1] = "list"
    THEN JTuple([i \in 1..Len(l[2]) |-> ToTuples(l[2][i])])
    ELSE l

EncodeTree(x) == IF x[1] = "list" THEN ToTuples(x) ELSE x

----------------------------------------------------------------------------
(* Index construction *)

RECURSIVE GetValue(_, _)
GetValue(doc_, nodes) ==
    IF Len(nodes) > 0
    THEN IF doc_[1] = "dict"
         THEN IF nodes[1] \in DOMAIN doc_[2]
              THEN GetValue(doc_[2][nodes[1]], Tail(nodes))
              ELSE Raise("KeyError")
         ELSE Raise("KeyError")
    ELSE <<"value", doc_>>

\* The <<value, id>> entries one document contributes to the index on key:
\* the nested descent and, for a dotted key, the flat key spelled with dots.
IndexEntries(doc, key) ==
    LET nodes == Nodes(key)
        got == GetValue(JDict(doc), nodes)
        v == IF got[2][1] = "dict" THEN DictPlaceholder ELSE got[2]
        flat == Join(nodes)
        id == doc[primary_key][2]
    IN  (IF Raised(got) THEN {} ELSE {<<EncodeTree(v), id>>})
        \cup
        (IF Len(nodes) > 1 /\ flat \in DOMAIN doc
         THEN {<<EncodeTree(doc[flat]), id>>} ELSE {})

BuildIndex(ds, key) ==
    LET entries == UNION {IndexEntries(d, key) : d \in ds}
    IN  [v \in {e[1] : e \in entries} |-> {e[2] : e \in {x \in entries : x[1] = v}}]

\* One index with _id removed from every group, the empty groups left in it
RemoveFromIndexKeepsEmpty(index, id) ==
    [v \in DOMAIN index |-> index[v] \ {id}]

\* One index with _id removed from every group and the empty groups deleted
RemoveFromIndex(index, id) ==
    LET keep == {v \in DOMAIN index : index[v] \ {id} # {}}
    IN  [v \in keep |-> index[v] \ {id}]

RECURSIVE RemoveIdsFromIndex(_, _)
RemoveIdsFromIndex(index, ids) ==
    IF ids = {} THEN index
    ELSE LET i == CHOOSE j \in ids : TRUE
         IN  RemoveIdsFromIndex(RemoveFromIndex(index, i), ids \ {i})

\* index[v].update(group) for every group of tmp
MergeIndex(index, tmp) ==
    [v \in DOMAIN index \cup DOMAIN tmp |->
        (IF v \in DOMAIN index THEN index[v] ELSE {})
        \cup (IF v \in DOMAIN tmp THEN tmp[v] ELSE {})]

----------------------------------------------------------------------------
(* The collection as a value: the fields of one Collection instance.  The  *)
(* operators below are the methods; each returns the collection after the  *)
(* call (c) and what the call returned or raised (out).                    *)

Result(c, out) == [c |-> c, out |-> out]

Ids(c) == {c.order[i] : i \in 1..Len(c.order)}

\* Collection._assert_open
AssertOpen(c) == ~c.closed

ClosedError == Raise("RuntimeError")

\* Collection.__setitem__ without the primary-key check
SetItemUnchecked(c, id, doc) ==
    IF ~AssertOpen(c) THEN Result(c, ClosedError)
    ELSE IF id[1] # "str" THEN Result(c, Raise("TypeError"))
    ELSE LET d == SetDefault(doc, primary_key, id)
         IN  Result([c EXCEPT
                        !.docs = (id[2] :> JsonDoc(d)) @@ c.docs,
                        !.order = IF id[2] \in DOMAIN c.docs
                                  THEN c.order ELSE Append(c.order, id[2]),
                        !.dirty = c.dirty \cup {id[2]},
                        !.requires_flush = TRUE],
                    ReturnNone)

\* Collection.__setitem__ that deletes the id before it stores the document
SetItemMovesToEnd(c, id, doc) ==
    IF ~AssertOpen(c) THEN Result(c, ClosedError)
    ELSE IF id[1] # "str" THEN Result(c, Raise("TypeError"))
    ELSE LET d == SetDefault(doc, primary_key, id)
         IN  IF id # d[primary_key]
             THEN Result(c, Raise("ValueError"))
             ELSE Result([c EXCEPT
                        !.docs = (id[2] :> JsonDoc(d)) @@ c.docs,
                        !.order = Append(SelectSeq(c.order, LAMBDA i : i # id[2]),
                                         id[2]),
                        !.dirty = c.dirty \cup {id[2]},
                        !.requires_flush = TRUE],
                    ReturnNone)

\* Collection.__setitem__
SetItem(c, id, doc) ==
    IF ~AssertOpen(c) THEN Result(c, ClosedError)
    ELSE IF id[1] # "str" THEN Result(c, Raise("TypeError"))
    ELSE LET d == SetDefault(doc, primary_key, id)
         IN  IF id # d[primary_key]
             THEN Result(c, Raise("ValueError"))
             ELSE Result([c EXCEPT
                        !.docs = (id[2] :> JsonDoc(d)) @@ c.docs,
                        !.order = IF id[2] \in DOMAIN c.docs
                                  THEN c.order ELSE Append(c.order, id[2]),
                        !.dirty = c.dirty \cup {id[2]},
                        !.requires_flush = TRUE],
                    ReturnNone)

\* Collection._remove_from_indexes
RemoveFromIndexes(ixs, id) ==
    [k \in DOMAIN ixs |-> RemoveFromIndex(ixs[k], id)]

\* Collection.__delitem__ that leaves the indexes alone
DelItemNoScrub(c, id) ==
    IF ~AssertOpen(c) THEN Result(c, ClosedError)
    ELSE IF id \notin DOMAIN c.docs THEN Result(c, Raise("KeyError"))
    ELSE Result([c EXCEPT
                    !.docs = [i \in DOMAIN c.docs \ {id} |-> c.docs[i]],
                    !.order = SelectSeq(c.order, LAMBDA i : i # id),
                    !.dirty = c.dirty \ {id},
                    !.requires_flush = TRUE],
                ReturnNone)

\* Collection.__delitem__ that leaves the id in the dirty set
DelItemKeepsDirty(c, id) ==
    IF ~AssertOpen(c) THEN Result(c, ClosedError)
    ELSE IF id \notin DOMAIN c.docs THEN Result(c, Raise("KeyError"))
    ELSE Result([c EXCEPT
                    !.docs = [i \in DOMAIN c.docs \ {id} |-> c.docs[i]],
                    !.order = SelectSeq(c.order, LAMBDA i : i # id),
                    !.indexes = RemoveFromIndexes(c.indexes, id),
                    !.requires_flush = TRUE],
                ReturnNone)

\* Collection.__delitem__ without its last line
DelItemNoFlag(c, id) ==
    IF ~AssertOpen(c) THEN Result(c, ClosedError)
    ELSE IF id \notin DOMAIN c.docs THEN Result(c, Raise("KeyError"))
    ELSE Result([c EXCEPT
                    !.docs = [i \in DOMAIN c.docs \ {id} |-> c.docs[i]],
                    !.order = SelectSeq(c.order, LAMBDA i : i # id),
                    !.indexes = RemoveFromIndexes(c.indexes, id),
                    !.dirty = c.dirty \ {id}],
                ReturnNone)

\* Collection.__delitem__
DelItem(c, id) ==
    IF ~AssertOpen(c) THEN Result(c, ClosedError)
    ELSE IF id \notin DOMAIN c.docs THEN Result(c, Raise("KeyError"))
    ELSE Result([c EXCEPT
                    !.docs = [i \in DOMAIN c.docs \ {id} |-> c.docs[i]],
                    !.order = SelectSeq(c.order, LAMBDA i : i # id),
                    !.indexes = RemoveFromIndexes(c.indexes, id),
                    !.dirty = c.dirty \ {id},
                    !.requires_flush = TRUE],
                ReturnNone)

\* Collection.clear: on a closed collection _docs is None and has no clear()
Clear(c) ==
    IF c.closed THEN Result(c, Raise("AttributeError"))
    ELSE Result([c EXCEPT !.docs = EmptyMap, !.order = <<>>,
                          !.indexes = EmptyMap, !.dirty = {},
                          !.requires_flush = TRUE],
                ReturnNone)

\* Collection._update_indexes that forgets to drop the stale entries
UpdateIndexesNoRemove(c) ==
    IF c.dirty = {} THEN Result(c, ReturnNone)
    ELSE LET ds == {c.docs[i] : i \in c.dirty}
         IN  Result([c EXCEPT
                 !.indexes = [k \in DOMAIN c.indexes |->
                                 MergeIndex(c.indexes[k], BuildIndex(ds, k))],
                 !.dirty = {}],
                 ReturnNone)

\* Collection._update_indexes
UpdateIndexes(c) ==
    IF c.dirty = {} THEN Result(c, ReturnNone)
    ELSE LET removed == [k \in DOMAIN c.indexes |->
                            RemoveIdsFromIndex(c.indexes[k], c.dirty)]
         IN  IF c.closed
             THEN Result([c EXCEPT !.indexes = removed], ClosedError)
             ELSE IF ~(c.dirty \subseteq DOMAIN c.docs)
             THEN Result([c EXCEPT !.indexes = removed], Raise("KeyError"))
             ELSE LET ds == {c.docs[i] : i \in c.dirty}
                  IN  Result([c EXCEPT
                          !.indexes = [k \in DOMAIN removed |->
                                          MergeIndex(removed[k], BuildIndex(ds, k))],
                          !.dirty = {}],
                          ReturnNone)

\* Collection._build_index
BuildIndexFor(c, key) ==
    [c EXCEPT !.indexes = (key :> BuildIndex({c.docs[i] : i \in DOMAIN c.docs}, key))
                          @@ c.indexes]

\* The end of Collection.index: r is what _update_indexes left, and out
\* names the live index that is returned
ReturnIndex(r, key) ==
    IF Raised(r.out) THEN r ELSE Result(r.c, <<"index", key>>)

\* Collection.index that builds a missing index whatever build is
IndexAlwaysBuilds(c, key, build) ==
    IF key = <<primary_key>> THEN Result(c, Raise("KeyError"))
    ELSE IF key \in DOMAIN c.indexes THEN ReturnIndex(UpdateIndexes(c), key)
    ELSE IF c.closed THEN Result(c, Raise("AttributeError"))
    ELSE ReturnIndex(UpdateIndexes(BuildIndexFor(c, key)), key)

\* Collection.index
Index(c, key, build) ==
    IF key = <<primary_key>> THEN Result(c, Raise("KeyError"))
    ELSE IF key \in DOMAIN c.indexes THEN ReturnIndex(UpdateIndexes(c), key)
    ELSE IF ~build THEN Result(c, Raise("KeyError"))
    ELSE IF c.closed THEN Result(c, Raise("AttributeError"))
    ELSE ReturnIndex(UpdateIndexes(BuildIndexFor(c, key)), key)

----------------------------------------------------------------------------
(* Operators of the query language *)

INDEX_OPERATORS == {"$eq", "$gt", "$gte", "$lt", "$lte", "$ne",
                    "$in", "$nin", "$regex", "$type", "$where"}

TYPES == {"int", "float", "bool", "str", "list", "null"}

\* isinstance(value, _TYPES[name]): bool is a subclass of int, 'list' is tuple
IsInstance(value, name) ==
    \/ name = "int" /\ value[1] \in {"int", "bool"}
    \/ name = "float" /\ value[1] = "float"
    \/ name = "bool" /\ value[1] = "bool"
    \/ name = "str" /\ value[1] = "str"
    \/ name = "list" /\ value[1] = "tuple"
    \/ name = "null" /\ value[1] = "null"

\* The strings of the model in lexicographic order; each is one character
StrOrder == <<"a", "b", "u", "w">>
Rank(s) == CHOOSE i \in 1..Len(StrOrder) : StrOrder[i] = s

\* Python 3 ordering of two values: "lt", "eq", "gt", or "TypeError" when the
\* types cannot be ordered
RECURSIVE Cmp(_, _)
Cmp(a, b) ==
    IF a[1] = "int" /\ b[1] = "int"
    THEN IF a[2] < b[2] THEN "lt" ELSE IF a[2] = b[2] THEN "eq" ELSE "gt"
    ELSE IF a[1] = "str" /\ b[1] = "str"
    THEN IF Rank(a[2]) < Rank(b[2]) THEN "lt"
         ELSE IF a[2] = b[2] THEN "eq" ELSE "gt"
    ELSE IF a[1] = "tuple" /\ b[1] = "tuple"
    THEN LET n == IF Len(a[2]) < Len(b[2]) THEN Len(a[2]) ELSE Len(b[2])
             diff == {i \in 1..n : a[2][i] # b[2][i]}
         IN  IF diff = {}
             THEN IF Len(a[2]) < Len(b[2]) THEN "lt"
                  ELSE IF Len(a[2]) = Len(b[2]) THEN "eq" ELSE "gt"
             ELSE LET i == CHOOSE j \in diff : \A k \in diff : j <= k
                  IN  Cmp(a[2][i], b[2][i])
    ELSE "TypeError"

\* re.search(pattern, string) for the model's patterns: a pattern is one
\* literal character and a string is one character
RegexSearch(pattern, string) == pattern = string

\* eval(argument)(value) for the expressions the model passes to $where
WhereSources == {"lambda x: True", "lambda x: x == 1"}
EvalWhere(argument, value) ==
    IF argument = "lambda x: True" THEN TRUE ELSE value = <<"int", 1>>

\* op(value, argument) of _find_with_index_operator: <<"ok", TRUE or FALSE>>,
\* or the exception it raises
Ok(b) == <<"ok", b>>

ApplyOperator(o, value, argument) ==
    IF o \in {"$in", "$nin"}
    THEN IF argument[1] = "tuple"
         THEN Ok((\E i \in 1..Len(argument[2]) : argument[2][i] = value) <=> (o = "$in"))
         ELSE IF argument[1] = "str" /\ value[1] = "str"
         THEN Ok((value[2] = argument[2]) <=> (o = "$in"))
         ELSE IF argument[1] = "expr"
         THEN Ok(o = "$nin")
         ELSE Raise("TypeError")
    ELSE IF o = "$regex"
    THEN IF value[1] = "str"
         THEN IF argument[1] = "str" THEN Ok(RegexSearch(argument[2], value[2]))
              ELSE Raise("TypeError")
         ELSE Ok(FALSE)
    ELSE IF o = "$type"
    THEN IF argument[1] = "str" /\ argument[2] \in TYPES
         THEN Ok(IsInstance(value, argument[2]))
         ELSE Raise("ValueError")
    ELSE IF o = "$where"
    THEN IF argument[1] = "str" /\ argument[2] \in WhereSources
         THEN Ok(EvalWhere(argument[2], value))
         ELSE Raise("TypeError")
    ELSE IF o = "$eq" THEN Ok(value = argument)
    ELSE IF o = "$ne" THEN Ok(value # argument)
    ELSE LET cmp == Cmp(value, argument)
         IN  IF cmp = "TypeError" THEN Raise("TypeError")
             ELSE IF o = "$gt" THEN Ok(cmp = "gt")
             ELSE IF o = "$gte" THEN Ok(cmp \in {"gt", "eq"})
             ELSE IF o = "$lt" THEN Ok(cmp = "lt")
             ELSE Ok(cmp \in {"lt", "eq"})

\* _find_with_index_operator
FindWithIndexOperator(index, o, argument) ==
    LET res == [v \in DOMAIN index |-> ApplyOperator(o, v, argument)]
        bad == {v \in DOMAIN index : Raised(res[v])}
    IN  IF bad # {}
        THEN res[CHOOSE v \in bad : TRUE]
        ELSE <<"ids", UNION {index[v] : v \in {w \in DOMAIN index : res[w][2]}}>>

----------------------------------------------------------------------------
(* The query engine *)

\* Key segments of the model that contain a '$': those that start with it ...
DollarFirst == INDEX_OPERATORS \cup {"$exists", "$and", "$or", "$not", "$bogus"}
\* ... and those that hold it elsewhere
DollarInside == {"a$"}

\* key.count('$'): every segment of the model holds at most one '$'
CountDollar(key) ==
    Cardinality({i \in 1..Len(key) : key[i] \in DollarFirst \cup DollarInside})

Unhashable(v) == v[1] \in {"list", "dict", "expr"}

\* index.get(value, set())
IndexGet(index, value) ==
    IF value \in DOMAIN index THEN index[value] ELSE {}

\* {elem for elems in index.values() for elem in elems}
AllGroups(index) == UNION {index[v] : v \in DOMAIN index}

\* The three lookups of _find_expression; r is what self.index(key,
\* build=True) left.  An index operator:
LookupOperator(r, k, o, value) ==
    IF Raised(r.out) THEN r
    ELSE Result(r.c, FindWithIndexOperator(r.c.indexes[k], o, value))

\* $exists that returns the ids of the index whatever the argument is
LookupExistsIgnoresArgument(r, k, value) ==
    IF Raised(r.out) THEN r
    ELSE Result(r.c, <<"ids", AllGroups(r.c.indexes[k])>>)

\* $exists:
LookupExists(r, k, value) ==
    IF Raised(r.out) THEN r
    ELSE Result(r.c, <<"ids", IF value[2] THEN AllGroups(r.c.indexes[k])
                              ELSE Ids(r.c) \ AllGroups(r.c.indexes[k])>>)

\* and the plain equality:
LookupValue(r, key, value) ==
    IF Raised(r.out) THEN r
    ELSE IF Unhashable(value) THEN Result(r.c, Raise("TypeError"))
    ELSE Result(r.c, <<"ids", IndexGet(r.c.indexes[key], value)>>)

\* key.split('.'): the operator is the last segment, the key the others
OperatorOf(key) == Nodes(key)[Len(Nodes(key))]
KeyOf(key) == SubSeq(Nodes(key), 1, Len(Nodes(key)) - 1)

\* Collection._find_expression
FindExpression(c, key, value) ==
    IF CountDollar(key) > 1 THEN Result(c, Raise("KeyError"))
    ELSE IF CountDollar(key) = 0 THEN LookupValue(Index(c, key, TRUE), key, value)
    ELSE IF OperatorOf(key) \notin DollarFirst THEN Result(c, Raise("KeyError"))
    ELSE IF OperatorOf(key) \in INDEX_OPERATORS
    THEN LookupOperator(Index(c, KeyOf(key), TRUE), KeyOf(key), OperatorOf(key), value)
    ELSE IF OperatorOf(key) = "$exists"
    THEN IF value[1] # "bool" THEN Result(c, Raise("ValueError"))
         ELSE LookupExists(Index(c, KeyOf(key), TRUE), KeyOf(key), value)
    ELSE Result(c, Raise("KeyError"))

\* _traverse_filter: the <<dotted key, value>> pairs of a filter, in order
RECURSIVE TraverseTree(_, _)
RECURSIVE TraverseItems(_, _)
TraverseTree(t0, key) ==
    LET t == EncodeTree(t0)
    IN  IF t[1] = "expr"
        THEN IF Len(t[2]) > 0 THEN TraverseItems(t[2], key)
             ELSE IF key # <<>> THEN << <<key, t>> >> ELSE <<>>
        ELSE << <<key, t>> >>
TraverseItems(items, key) ==
    IF items = <<>> THEN <<>>
    ELSE TraverseTree(items[1][2], key \o items[1][1])
         \o TraverseItems(Tail(items), key)

TraverseFilter(t) == TraverseTree(t, <<>>)

\* dict.pop(key, None) on the items of a filter mapping
PopValue(items, key) ==
    IF \E i \in 1..Len(items) : items[i][1] = key
    THEN items[CHOOSE i \in 1..Len(items) : items[i][1] = key][2]
    ELSE JNull
PopRest(items, key) == SelectSeq(items, LAMBDA it : it[1] # key)

NoResult == <<"None", {}>>
\* _reduce_result
ReduceResult(result, match) ==
    IF result[1] = "None" THEN <<"set", match>>
    ELSE <<"set", result[2] \cap match>>

\* The primary-key step of _find_result: the result so far
PrimaryKeyStep(c, id) ==
    IF id # JNull /\ id[1] = "str" /\ id[2] \in DOMAIN c.docs
    THEN ReduceResult(NoResult, {id[2]})
    ELSE NoResult

\* _check_logical_operator_argument: the exception it raises, or ReturnNone
CheckLogicalOperatorArgument(argument) ==
    IF argument[1] # "list" THEN Raise("ValueError")
    ELSE IF Len(argument[2]) = 0 THEN Raise("ValueError")
    ELSE ReturnNone


RECURSIVE FindResult(_, _)
RECURSIVE ExprLoop(_, _, _)
RECURSIVE AndLoop(_, _, _)
RECURSIVE OrLoop(_, _, _)

\* One pass of the loop of _find_result over the non-logical expressions; r
\* is what _find_expression left.  out is <<"return", {}>> for the early
\* return, <<"cont", result>> at the end of the loop
ExprReduce(r, pairs, result) ==
    IF Raised(r.out) THEN r
    ELSE IF ReduceResult(result, r.out[2])[2] = {}
    THEN Result(r.c, <<"return", {}>>)
    ELSE ExprLoop(r.c, pairs, ReduceResult(result, r.out[2]))

ExprLoop(c, pairs, result) ==
    IF pairs = <<>> THEN Result(c, <<"cont", result>>)
    ELSE ExprReduce(FindExpression(c, pairs[1][1], pairs[1][2]), Tail(pairs), result)

\* One pass of the loop over the expressions of $and; r is what the
\* recursive _find_result left
AndReduce(r, exprs, result) ==
    IF Raised(r.out) THEN r
    ELSE AndLoop(r.c, exprs, ReduceResult(result, r.out[2]))

AndLoop(c, exprs, result) ==
    IF exprs = <<>> THEN Result(c, <<"cont", result>>)
    ELSE AndReduce(FindResult(c, exprs[1]), Tail(exprs), result)

\* One pass of the loop over the expressions of $or
OrReduce(r, exprs, or_results) ==
    IF Raised(r.out) THEN r
    ELSE OrLoop(r.c, exprs, or_results \cup r.out[2])

OrLoop(c, exprs, or_results) ==
    IF exprs = <<>> THEN Result(c, <<"cont", or_results>>)
    ELSE OrReduce(FindResult(c, exprs[1]), Tail(exprs), or_results)

\* The $not step of _find_result: r is what the loop over the expressions
\* left, n what the recursive _find_result left
NotReduce(n, result) ==
    IF Raised(n.out) THEN n
    ELSE Result(n.c, <<"cont", ReduceResult(result, Ids(n.c) \ n.out[2])>>)

NotStep(r, not_expression) ==
    IF r.out[1] # "cont" \/ not_expression = JNull THEN r
    ELSE NotReduce(FindResult(r.c, not_expression), r.out[2])

\* The $and step
AndStep(r, and_expressions) ==
    IF r.out[1] # "cont" \/ and_expressions = JNull THEN r
    ELSE IF Raised(CheckLogicalOperatorArgument(and_expressions))
    THEN Result(r.c, CheckLogicalOperatorArgument(and_expressions))
    ELSE AndLoop(r.c, and_expressions[2], r.out[2])

\* The $or step: o is what the loop over the expressions of $or left
OrMerge(o, result) ==
    IF Raised(o.out) THEN o
    ELSE Result(o.c, <<"cont", ReduceResult(result, o.out[2])>>)

OrStep(r, or_expressions) ==
    IF r.out[1] # "cont" \/ or_expressions = JNull THEN r
    ELSE IF Raised(CheckLogicalOperatorArgument(or_expressions))
    THEN Result(r.c, CheckLogicalOperatorArgument(or_expressions))
    ELSE OrMerge(OrLoop(r.c, or_expressions[2], {}), r.out[2])

\* The end of _find_result: the early return, the assertion, the result
ReturnResult(r) ==
    IF Raised(r.out) THEN r
    ELSE IF r.out[1] = "return" THEN Result(r.c, <<"ids", {}>>)
    ELSE IF r.out[2][1] = "None" THEN Result(r.c, Raise("AssertionError"))
    ELSE Result(r.c, <<"ids", r.out[2][2]>>)

\* The filter without its primary key and its logical operators
Expressions(items) ==
    PopRest(PopRest(PopRest(PopRest(items,
        <<primary_key>>), <<"$or">>), <<"$and">>), <<"$not">>)

\* Collection._find_result
FindResult(c, expr) ==
    IF expr[1] # "expr"
    THEN \* len(), then pop(), of something that is not a mapping
         IF expr[1] \in {"list", "str"}
         THEN IF (expr[1] = "list" /\ Len(expr[2]) = 0) \/ expr = <<"str", "">>
              THEN Result(c, <<"ids", Ids(c)>>)
              ELSE Result(c, Raise("AttributeError"))
         ELSE Result(c, Raise("TypeError"))
    ELSE IF Len(expr[2]) = 0 THEN Result(c, <<"ids", Ids(c)>>)
    ELSE IF PopValue(expr[2], <<primary_key>>) # JNull
            /\ Unhashable(PopValue(expr[2], <<primary_key>>))
    THEN Result(c, Raise("TypeError"))
    ELSE ReturnResult(
           OrStep(
             AndStep(
               NotStep(
                 ExprLoop(c, TraverseFilter(Expr(Expressions(expr[2]))),
                          PrimaryKeyStep(c, PopValue(expr[2], <<primary_key>>))),
                 PopValue(expr[2], <<"$not">>)),
               PopValue(expr[2], <<"$and">>)),
             PopValue(expr[2], <<"$or">>)))

\* _valid_filter
RECURSIVE ValidFilter(_, _)
ValidFilter(f, top) ==
    IF f[1] = "expr"
    THEN \A i \in 1..Len(f[2]) : ValidFilter(f[2][i][2], FALSE)
    ELSE IF f[1] = "list" THEN ~top
    ELSE TRUE

\* Collection._find without the normalisation: the name filter still refers
\* to the caller's object
NormalizeOmitted(filter0) == [value |-> filter0, fresh |-> FALSE]

\* filter = json.loads(json.dumps(filter)) in _find: the value the name
\* filter is bound to, an object of its own
Normalize(filter0) == [value |-> JsonRoundTrip(filter0), fresh |-> TRUE]

\* The mapping _find_result was handed, as its pops leave it: the primary
\* key is popped first, the logical operators after the membership test
Popped(expr) ==
    IF expr[1] # "expr" \/ Len(expr[2]) = 0 THEN expr
    ELSE IF PopValue(expr[2], <<primary_key>>) # JNull
            /\ Unhashable(PopValue(expr[2], <<primary_key>>))
    THEN Expr(PopRest(expr[2], <<primary_key>>))
    ELSE Expr(Expressions(expr[2]))

\* The object the caller passed to _find, when _find has returned or raised
FilterAfterFind(c, filter0) ==
    IF ~AssertOpen(c) \/ Normalize(filter0).fresh THEN filter0
    ELSE IF Normalize(filter0).value = JNull
            \/ ~ValidFilter(Normalize(filter0).value, TRUE)
    THEN Normalize(filter0).value
    ELSE Popped(Normalize(filter0).value)

\* The object the caller passed to replace_one, when it has returned
FilterAfterReplaceOne(c, filter) ==
    IF ~AssertOpen(c) \/ filter[1] # "expr"
       \/ (Len(filter[2]) = 1 /\ filter[2][1][1] = <<primary_key>>)
    THEN filter
    ELSE FilterAfterFind(c, filter)

\* Collection._find up to the limit: the whole result vector.  out is
\* <<"first", n>> when the first ids in insertion order are the result.
FindAll(c, filter0) ==
    IF ~AssertOpen(c) THEN Result(c, ClosedError)
    ELSE LET filter == Normalize(filter0).value
         IN  IF filter # JNull /\ ~ValidFilter(filter, TRUE)
             THEN Result(c, Raise("ValueError"))
             ELSE IF filter = JNull \/ (filter[1] = "expr" /\ Len(filter[2]) = 0)
             THEN Result(c, <<"first", Ids(c)>>)
             ELSE FindResult(c, filter)

\* The cut of a result that takes any ids, also of the keys of _docs
SlicedUnordered(c, out, limit) ==
    IF Raised(out) THEN {out}
    ELSE IF limit = 0 \/ limit >= Cardinality(out[2]) THEN {<<"ids", out[2]>>}
    ELSE {<<"ids", s>> : s \in {t \in SUBSET out[2] : Cardinality(t) = limit}}

\* set(islice(result, limit if limit else None)): the sets it can produce.
\* A set is cut in its iteration order, which the program does not
\* determine; the keys of _docs are cut in insertion order.
Sliced(c, out, limit) ==
    IF Raised(out) THEN {out}
    ELSE IF limit = 0 \/ limit >= Cardinality(out[2]) THEN {<<"ids", out[2]>>}
    ELSE IF out[1] = "first"
    THEN {<<"ids", {c.order[i] : i \in 1..limit}>>}
    ELSE {<<"ids", s>> : s \in {t \in SUBSET out[2] : Cardinality(t) = limit}}

----------------------------------------------------------------------------
(* The remaining methods.  Where the program leaves a choice open (the id  *)
(* uuid4 draws, the iteration order of a set) the operator takes the       *)
(* choice as an argument or returns the set of its possible results.       *)

\* Collection.insert_one; uuid is the string str(uuid4()) evaluates to
InsertOne(c, doc, uuid) ==
    IF ~AssertOpen(c) THEN Result(c, ClosedError)
    ELSE LET id == SetDefault(doc, primary_key, JStr(uuid))[primary_key]
             r == SetItem(c, id, SetDefault(doc, primary_key, JStr(uuid)))
         IN  IF Raised(r.out) THEN r ELSE Result(r.c, <<"id", id>>)

\* Collection.update; uuids[i] is the string uuid4 yields for the i-th doc
RECURSIVE Update(_, _, _)
Update(c, ds, uuids) ==
    IF ds = <<>> THEN Result(c, ReturnNone)
    ELSE LET d == SetDefault(ds[1], primary_key, JStr(uuids[1]))
             r == SetItem(c, d[primary_key], d)
         IN  IF Raised(r.out) THEN r
             ELSE Update(r.c, Tail(ds), Tail(uuids))

\* Collection.replace_one: the possible results
ReplaceOne(c, filter, replacement, upsert, uuid) ==
    IF ~AssertOpen(c) THEN {Result(c, ClosedError)}
    ELSE IF filter[1] # "expr" THEN {Result(c, Raise("TypeError"))}
    ELSE IF Len(filter[2]) = 1 /\ filter[2][1][1] = <<primary_key>>
    THEN LET id == filter[2][1][2]
         IN  IF ~upsert /\ Unhashable(id) THEN {Result(c, Raise("TypeError"))}
             ELSE IF upsert \/ (id[1] = "str" /\ id[2] \in DOMAIN c.docs)
             THEN {SetItem(c, id, replacement)}
             ELSE {Result(c, ReturnNone)}
    ELSE LET f == FindAll(c, filter)
         IN  IF Raised(f.out) THEN {f}
             ELSE IF f.out[2] # {}
             THEN {LET r == SetItem(f.c, JStr(id), replacement)
                   IN  IF Raised(r.out) THEN r ELSE Result(r.c, <<"id", JStr(id)>>)
                   : id \in f.out[2]}
             ELSE IF upsert THEN {InsertOne(f.c, replacement, uuid)}
             ELSE {Result(f.c, ReturnNone)}

RECURSIVE DeleteAll(_, _)
DeleteAll(c, ids) ==
    IF ids = {} THEN Result(c, ReturnNone)
    ELSE LET i == CHOOSE j \in ids : TRUE
             r == DelItem(c, i)
         IN  IF Raised(r.out) THEN r ELSE DeleteAll(r.c, ids \ {i})

\* Collection.delete_many
DeleteMany(c, filter) ==
    LET f == FindAll(c, filter)
    IN  IF Raised(f.out) THEN f ELSE DeleteAll(f.c, f.out[2])

\* Collection.delete_one: the possible results
DeleteOne(c, filter) ==
    LET f == FindAll(c, filter)
    IN  {IF Raised(o) THEN Result(f.c, o) ELSE DeleteAll(f.c, o[2])
         : o \in Sliced(f.c, f.out, 1)}

\* Collection.find: the possible result vectors
Find(c, filter, limit) ==
    LET f == FindAll(c, filter)
    IN  {Result(f.c, o) : o \in Sliced(f.c, f.out, limit)}

\* dict.copy(): the copy, and the keys under which it holds the very object
\* the original holds (a mutable value is shared, not copied)
ShallowCopy(doc) == <<doc, {k \in DOMAIN doc : doc[k][1] \in {"dict", "list"}}>>

\* Collection.__getitem__
GetItem(c, id) ==
    IF ~AssertOpen(c) THEN Result(c, ClosedError)
    ELSE IF id \notin DOMAIN c.docs THEN Result(c, Raise("KeyError"))
    ELSE Result(c, <<"doc", id, ShallowCopy(c.docs[id])>>)

\* Collection.find_one: the possible results
FindOne(c, filter) ==
    {IF Raised(r.out) THEN r
     ELSE IF r.out[2] = {} THEN Result(r.c, ReturnNone)
     ELSE GetItem(r.c, CHOOSE i \in r.out[2] : TRUE)
     : r \in Find(c, filter, 1)}

\* Collection.__len__
LenOf(c) ==
    IF ~AssertOpen(c) THEN Result(c, ClosedError)
    ELSE Result(c, <<"int", Len(c.order)>>)

\* Collection.__contains__: on a closed collection _docs is None, and
\* `_id in None` is a TypeError
Contains(c, id) ==
    IF c.closed THEN Result(c, Raise("TypeError"))
    ELSE Result(c, <<"bool", id \in DOMAIN c.docs>>)

\* Collection.__iter__
Iter(c) ==
    IF ~AssertOpen(c) THEN Result(c, ClosedError)
    ELSE Result(c, <<"docs", [i \in 1..Len(c.order) |-> c.docs[c.order[i]]]>>)

\* Collection.ids
IdsOf(c) ==
    IF ~AssertOpen(c) THEN Result(c, ClosedError)
    ELSE Result(c, <<"keys", c.order>>)

\* json.dumps(doc) + '\n' and json.loads(line)
DumpLine(doc) == <<"json", JsonDoc(doc)>>
LoadLine(line) == line[2]

\* The lines Collection.dump writes
DumpLines(c) == [i \in 1..Len(c.order) |-> DumpLine(c.docs[c.order[i]])]

\* Collection.dump to a sink of its own
Dump(c) ==
    IF ~AssertOpen(c) THEN Result(c, ClosedError)
    ELSE Result(c, <<"lines", DumpLines(c)>>)

----------------------------------------------------------------------------
(* The backing file: f.pos is the position of the file object, counted in  *)
(* lines, and content is what the file holds.                              *)

\* file.truncate(): the size defaults to the current position
Truncate(content, pos) == SubSeq(content, 1, pos)

\* Collection.flush: the collection, the file content and position after it
Flush(c, content, pos) ==
    IF ~AssertOpen(c) THEN [c |-> c, out |-> ClosedError,
                            content |-> content, pos |-> pos]
    ELSE IF c.requires_flush
    THEN LET written == Truncate(content, pos) \o DumpLines(c)
         IN  [c |-> [c EXCEPT !.requires_flush = FALSE], out |-> ReturnNone,
              content |-> written, pos |-> Len(written)]
    ELSE [c |-> c, out |-> ReturnNone, content |-> content, pos |-> pos]

\* What the file holds when flush fails at a stage: 0 is a failure of
\* truncate, n in 1..len(docs) a failure of the n-th write of dump, and
\* len(docs) + 1 a failure of file.flush()
FailedWrite(c, content, pos, stage) ==
    IF stage = 0 THEN content
    ELSE Truncate(content, pos)
         \o SubSeq(DumpLines(c), 1,
                   IF stage - 1 < Len(c.order) THEN stage - 1 ELSE Len(c.order))

\* Collection.flush on a file that fails, with requires_flush reset before
\* the file is written
FlushFailingResetsFlag(c, content, pos, stage) ==
    IF ~AssertOpen(c) \/ ~c.requires_flush THEN Flush(c, content, pos)
    ELSE [c |-> [c EXCEPT !.requires_flush = FALSE], out |-> Raise("OSError"),
          content |-> FailedWrite(c, content, pos, stage),
          pos |-> IF stage = 0 THEN pos ELSE Len(FailedWrite(c, content, pos, stage))]

\* Collection.flush on a file that fails at a stage; a flush that does not
\* touch the file cannot fail
FlushFailing(c, content, pos, stage) ==
    IF ~AssertOpen(c) \/ ~c.requires_flush THEN Flush(c, content, pos)
    ELSE [c |-> c, out |-> Raise("OSError"),
          content |-> FailedWrite(c, content, pos, stage),
          pos |-> IF stage = 0 THEN pos ELSE Len(FailedWrite(c, content, pos, stage))]

\* The finally block of Collection.close: r is what flush left
Release(r) ==
    [c |-> [r.c EXCEPT !.indexes = EmptyMap, !.docs = EmptyMap,
                       !.order = <<>>, !.closed = TRUE],
     out |-> r.out, content |-> r.content, file |-> <<"None", 0>>]

\* Collection.close; f is the file object, and the flush fails at the
\* stage when fails is true
Close(c, f, content, fails, stage) ==
    IF f[1] # "file"
    THEN [c |-> c, out |-> ReturnNone, content |-> content, file |-> f]
    ELSE IF fails THEN Release(FlushFailing(c, content, f[2], stage))
    ELSE Release(Flush(c, content, f[2]))

\* Collection.__exit__ that closes only when the with block did not raise
ExitOnNormalPath(c, f, content, fault, fails, stage) ==
    IF fault
    THEN [c |-> c, out |-> ReturnNone, content |-> content, file |-> f]
    ELSE Close(c, f, content, fails, stage)

\* Collection.__exit__: fault tells whether the with block raised
Exit(c, f, content, fault, fails, stage) == Close(c, f, content, fails, stage)

\* Collection.__init__ with docs, as Collection._open calls it on the lines
\* of the file
RECURSIVE LoadDocs(_, _)
LoadDocs(c, lines) ==
    IF lines = <<>> THEN c
    ELSE LET doc == LoadLine(lines[1])
         IN  LoadDocs(SetItem(c, doc[primary_key], doc).c, Tail(lines))

NewCollection ==
    [docs |-> EmptyMap, order |-> <<>>, dirty |-> {}, indexes |-> EmptyMap,
     requires_flush |-> FALSE, closed |-> FALSE]

\* Collection.open: seek(0), read every line, build the collection
Open(content) ==
    LET loaded == LoadDocs(NewCollection, content)
    IN  UpdateIndexes([loaded EXCEPT !.requires_flush = FALSE]).c

----------------------------------------------------------------------------
(* MemCache (src/signac/core/caching.py): m.data is the dict _data,        *)
(* m.misses the counter _misses and m.warned the flag _warned.  The        *)
(* warning threshold decides a log message only.                           *)

\* MemCache.__init__
NewMemCache == [data |-> EmptyMap, misses |-> 0, warned |-> FALSE]

\* MemCache.__getitem__: the expression statement self._data[key] looks the
\* key up and drops the value, so the method returns None on a hit
MemCacheGetItem(m, key) ==
    IF key \in DOMAIN m.data THEN Result(m, ReturnNone)
    ELSE Result([m EXCEPT !.misses = @ + 1, !.warned = TRUE], Raise("KeyError"))

\* MemCache.__setitem__
MemCacheSetItem(m, key, value) ==
    Result([m EXCEPT !.data = (key :> value) @@ @], ReturnNone)

\* Keys a cache is used with
CacheKeys == {"k1", "k2"}

\* Most misses followed
MaxMisses == 3

MemCacheSelf == [data |-> mem_data, misses |-> misses, warned |-> warned]

----------------------------------------------------------------------------
(* CachedSyncedCollection (src/signac/core/caching.py).  s.data is what    *)
(* the root collection holds in memory, s.backend what its backend stores, *)
(* s.cache the entry of the collection in its cache (None when there is    *)
(* none) and s.suspend the counter _suspend_sync_ of each collection.  The *)
(* methods the class leaves abstract or inherits are taken by their        *)
(* contract: a store of one value each.                                    *)

\* The root collection and a collection nested in it
Collections == {"root", "child"}

\* _parent
Parent(who) == IF who = "child" THEN "root" ELSE "None"

\* to_base(): the data held in memory
ToBase(s) == s.data

\* _sync_to_backend(data)
SyncToBackend(s, d) == [s EXCEPT !.backend = d]

\* _load(): the data the backend stores
LoadBackend(s) == s.backend

\* _write_to_cache(data)
WriteToCache(s, d) == [s EXCEPT !.cache = d]

\* _read_from_cache(): the entry, None when there is none
ReadFromCache(s) == s.cache

\* with self._suspend_sync(): self._update(data); the counter is back where
\* it was when the block is left
UpdateSuspended(s, d) == [s EXCEPT !.data = d]

\* CachedSyncedCollection.sync that leaves the cache as it is
RECURSIVE SyncWithoutCache(_, _)
SyncWithoutCache(s, who) ==
    IF s.suspend[who] <= 0
    THEN IF Parent(who) = "None"
         THEN SyncToBackend(s, ToBase(s))
         ELSE SyncWithoutCache(s, Parent(who))
    ELSE s

\* CachedSyncedCollection.sync
RECURSIVE Sync(_, _)
Sync(s, who) ==
    IF s.suspend[who] <= 0
    THEN IF Parent(who) = "None"
         THEN WriteToCache(SyncToBackend(s, ToBase(s)), ToBase(s))
         ELSE Sync(s, Parent(who))
    ELSE s

\* CachedSyncedCollection.load
RECURSIVE Load(_, _)
Load(s, who) ==
    IF s.suspend[who] <= 0
    THEN IF Parent(who) = "None"
         THEN IF ReadFromCache(s) = JNull
              THEN UpdateSuspended(WriteToCache(s, LoadBackend(s)), LoadBackend(s))
              ELSE UpdateSuspended(s, ReadFromCache(s))
         ELSE Load(s, Parent(who))
    ELSE s

\* CachedSyncedCollection.refresh_cache
RefreshCache(s) == WriteToCache(s, LoadBackend(s))

\* Deepest nesting of the blocks that suspend synchronisation
MaxSuspend == 2

SyncedSelf == [data |-> data, backend |-> backend, cache |-> cache,
               suspend |-> suspend_sync]

\* A collection that holds what its backend stores: nothing is cached and
\* synchronisation is not suspended
InitSynced ==
    /\ data = JInt(1)
    /\ backend = JInt(1)
    /\ cache = JNull
    /\ suspend_sync = [who \in Collections |-> 0]

----------------------------------------------------------------------------
(* Job (src/src/compdb/contrib/job.py).  d is the document of the job in   *)
(* the jobs collection: <<"None">> when there is none, else <<"doc", f>>   *)
(* with f the fields besides the specification of the job, 'executing' and *)
(* 'error', each absent until it is first pushed to.  j is one Job object: *)
(* j.pc is where it stands ("new" before _obtain_id, "obtain" inside its   *)
(* loop, "fetch" after the loop, "ready" once built, "open" inside its     *)
(* with block, "removing" inside remove(), "removed" after it, "failed"    *)
(* when __init__ raised), j.attempt the loop variable of _obtain_id and    *)
(* j.found result['updatedExisting'], both of them 0 and FALSE outside of  *)
(* _obtain_id, and j.spec the document _obtain_id fetched.  The instance   *)
(* i has the unique id i.  The document lock makes each block under it one *)
(* step.                                                                   *)

NoJob == <<"None">>

\* The document an upsert inserts
NewJobDoc == <<"doc", EmptyMap>>

\* A query document matches d: every field of it is in d with that value
QueryMatches(d, q) ==
    /\ d[1] = "doc" /\ q[1] = "doc"
    /\ \A f \in DOMAIN q[2] : f \in DOMAIN d[2] /\ d[2][f] = q[2][f]

\* update(spec, {'$push': {field: v}}): nothing without a document
Push(d, field, v) ==
    IF d[1] # "doc" THEN d
    ELSE IF field \in DOMAIN d[2]
    THEN <<"doc", [d[2] EXCEPT ![field] = Append(@, v)]>>
    ELSE <<"doc", (field :> <<v>>) @@ d[2]>>

\* The document after {'$pull': {field: v}}
Pull(d, field, v) ==
    IF d[1] # "doc" \/ field \notin DOMAIN d[2] THEN d
    ELSE <<"doc", [d[2] EXCEPT ![field] = SelectSeq(@, LAMBDA e : e # v)]>>

\* Job._open_instances
OpenInstances(d) ==
    IF d[1] = "doc" /\ "executing" \in DOMAIN d[2] THEN d[2]["executing"] ELSE <<>>

\* Job.num_open_instances
NumOpenInstances(d) == Len(OpenInstances(d))

\* Job._add_instance
AddInstance(d, i) == Push(d, "executing", i)

\* Job._remove_instance: find_and_modify returns the new document, None
\* when there is none
RemoveInstance(d, i) ==
    [doc |-> Pull(d, "executing", i),
     out |-> IF d[1] # "doc" THEN Raise("TypeError")
             ELSE IF "executing" \notin DOMAIN d[2] THEN Raise("KeyError")
             ELSE <<"int", NumOpenInstances(Pull(d, "executing", i))>>]

num_attempts == 3

\* One pass of the loop of Job._obtain_id with a bound that is one too high
UpsertAttemptOnceMore(j, d, dup) ==
    IF dup
    THEN IF j.attempt >= num_attempts
         THEN [j |-> [j EXCEPT !.pc = "failed", !.attempt = 0], doc |-> d,
               out |-> Raise("RuntimeError")]
         ELSE [j |-> [j EXCEPT !.pc = "obtain", !.attempt = @ + 1], doc |-> d,
               out |-> <<"sleep_random", 1>>]
    ELSE [j |-> [j EXCEPT !.pc = "fetch", !.found = (d[1] = "doc")],
          doc |-> IF d[1] = "doc" THEN d ELSE NewJobDoc,
          out |-> <<"break", j.attempt>>]

\* One pass of the loop of Job._obtain_id: the upsert, which the database
\* may refuse with DuplicateKeyError (dup)
UpsertAttempt(j, d, dup) ==
    IF dup
    THEN IF j.attempt >= num_attempts - 1
         THEN [j |-> [j EXCEPT !.pc = "failed", !.attempt = 0], doc |-> d,
               out |-> Raise("RuntimeError")]
         ELSE [j |-> [j EXCEPT !.pc = "obtain", !.attempt = @ + 1], doc |-> d,
               out |-> <<"sleep_random", 1>>]
    ELSE [j |-> [j EXCEPT !.pc = "fetch", !.found = (d[1] = "doc")],
          doc |-> IF d[1] = "doc" THEN d ELSE NewJobDoc,
          out |-> <<"break", j.attempt>>]

\* Job._obtain_id after the loop: the document is read back and asserted
FetchSpec(j, d) ==
    IF d[1] # "doc"
    THEN [j |-> [j EXCEPT !.pc = "failed", !.attempt = 0, !.found = FALSE],
          doc |-> d,
          out |-> IF j.found THEN Raise("TypeError") ELSE Raise("AssertionError")]
    ELSE [j |-> [j EXCEPT !.pc = "ready", !.attempt = 0, !.found = FALSE,
                          !.spec = d],
          doc |-> d, out |-> ReturnNone]

\* Job.__enter__: open() under the lock
Enter(j, d, i) ==
    [j |-> [j EXCEPT !.pc = "open"], doc |-> AddInstance(d, i), out |-> <<"job", i>>]

\* Job.__exit__ that leaves the instance in the list
JobExitKeepsInstance(j, d, i, fault) ==
    [j |-> [j EXCEPT !.pc = "ready"],
     doc |-> IF fault /\ QueryMatches(d, j.spec) THEN Push(d, "error", "err") ELSE d,
     out |-> IF fault THEN <<"bool", FALSE>> ELSE ReturnNone]

\* Job.__exit__ under the lock: the error is pushed to the document that
\* matches the specification the instance holds, then _close_with_error
JobExit(j, d, i, fault) ==
    LET r == RemoveInstance(
                 IF fault /\ QueryMatches(d, j.spec)
                 THEN Push(d, "error", "err") ELSE d, i)
    IN  [j |-> [j EXCEPT !.pc = "ready"], doc |-> r.doc,
         out |-> IF Raised(r.out) THEN r.out
                 ELSE IF fault THEN <<"bool", FALSE>> ELSE ReturnNone]

\* Job.remove up to the call of _remove
RemoveCheck(j, d, force) ==
    IF ~force /\ NumOpenInstances(d) # 0
    THEN [j |-> j, doc |-> d, out |-> Raise("RuntimeError")]
    ELSE [j |-> [j EXCEPT !.pc = "removing"], doc |-> d, out |-> <<"continue">>]

\* Job._remove: the document is removed and the instance loses its _id
Remove(j, d) ==
    [j |-> [j EXCEPT !.pc = "removed", !.spec = NoJob], doc |-> NoJob,
     out |-> ReturnNone]

\* Job objects created for the job
MaxInstances == 2

Instances == 1..MaxInstances

\* Longest list of errors followed
MaxErrors == 1

\* Job.__init__ before _obtain_id
NewJob == [pc |-> "new", attempt |-> 0, found |-> FALSE, spec |-> NoJob]

InitJob ==
    /\ job_doc = NoJob
    /\ instances = [i \in Instances |-> NewJob]

InitMemCache ==
    /\ mem_data = NewMemCache.data
    /\ misses = NewMemCache.misses
    /\ warned = NewMemCache.warned


----------------------------------------------------------------------------
(* Inputs *)

\* Strings a caller uses as ids, and the strings uuid4 can produce.  Any
\* string may be used as an id, so a caller's id may be one uuid4 produces.
UserIds == {"a", "u"}
Uuid4Strings == {"u"}
AllIds == UserIds \cup Uuid4Strings

\* The largest integer stored under a key
MaxValue == 2

\* Document bodies: a top-level value, a nested mapping, and a flat key that
\* is spelled with a dot
Bodies ==
    {("x" :> JInt(v)) : v \in 1..MaxValue}
    \cup {("n" :> JDict("v" :> JInt(1))), ("n.v" :> JInt(1))}

WithId(body, id) == (primary_key :> id) @@ body

\* Documents that carry a primary key: a string, and one that is no string
KeyedDocs ==
    {WithId(("x" :> JInt(1)), JStr("a")), WithId(("x" :> JInt(1)), JInt(7))}

DocArgs == Bodies \cup KeyedDocs

IdArgs == {JStr(i) : i \in UserIds} \cup {JInt(7)}

\* Filters
FieldFilter(key, v) == Expr(<< <<key, v>> >>)

FieldFilters ==
    {FieldFilter(<<"x">>, JInt(v)) : v \in 1..MaxValue}
    \cup {FieldFilter(<<"n", "v">>, JInt(1)),
          FieldFilter(<<"n">>, FieldFilter(<<"v">>, JInt(1)))}

PrimaryKeyOnly == FieldFilter(<<primary_key>>, JStr("a"))

PrimaryKeyFilters ==
    {PrimaryKeyOnly,
     Expr(<< <<(<<primary_key>>), JStr("a")>>, <<(<<"x">>), JInt(1)>> >>),
     Expr(<< <<(<<primary_key>>), JStr("a")>>,
             <<(<<"$or">>), JList(<< FieldFilter(<<"x">>, JInt(1)) >>)>> >>)}

Filters == FieldFilters \cup PrimaryKeyFilters \cup {Expr(<<>>), JNull}

\* Files a collection is opened on: files the program wrote
InitialFiles ==
    {<<>>,
     << DumpLine(WithId(("x" :> JInt(1)), JStr("a"))) >>}

\* Longest backing file
MaxFileLines == 3

\* Filters built with the logical operators
And(fs) == Expr(<< <<(<<"$and">>), JList(fs)>> >>)
Or(fs) == Expr(<< <<(<<"$or">>), JList(fs)>> >>)
Not(f) == Expr(<< <<(<<"$not">>), f>> >>)

\* The filters that are put under a logical operator: the null filter, the
\* empty one, field predicates and a primary key
SubFilters ==
    {JNull, Expr(<<>>), PrimaryKeyOnly}
    \cup {FieldFilter(<<"x">>, JInt(v)) : v \in 1..MaxValue}

\* $or next to a field predicate in the same filter
OrBeside(f, gs) == Expr(f[2] \o Or(gs)[2])

LogicalFilters ==
    {And(<<f>>) : f \in SubFilters}
    \cup {Not(f) : f \in SubFilters}
    \cup {Or(<<FieldFilter(<<"x">>, JInt(1)), g>>) : g \in SubFilters}
    \cup {OrBeside(FieldFilter(<<"x">>, JInt(1)),
                   <<PrimaryKeyOnly, FieldFilter(<<"x">>, JInt(MaxValue))>>)}

\* The largest limit passed to find
MaxLimit == 2

----------------------------------------------------------------------------
(* State *)

Self == [docs |-> docs, order |-> order, dirty |-> dirty, indexes |-> indexes,
         requires_flush |-> requires_flush, closed |-> closed]

\* The fields of the instance become those of c
Becomes(c) ==
    /\ docs' = c.docs
    /\ order' = c.order
    /\ dirty' = c.dirty
    /\ indexes' = c.indexes
    /\ requires_flush' = c.requires_flush
    /\ closed' = c.closed

\* A call that touches neither the file object nor the file, and is handed
\* the filter object that is `after` when the call returns
CallFiltered(name, r, after) ==
    /\ Becomes(r.c)
    /\ op' = name
    /\ ret' = r.out
    /\ caller_filter' = after
    /\ UNCHANGED <<file, disk, flushed>>
    /\ UNCHANGED <<memcache_vars, synced_vars, job_vars>>

\* A call that takes no filter
Call(name, r) == CallFiltered(name, r, JNull)

Init ==
    /\ disk \in InitialFiles
    /\ docs = Open(disk).docs
    /\ order = Open(disk).order
    /\ dirty = Open(disk).dirty
    /\ indexes = Open(disk).indexes
    /\ requires_flush = Open(disk).requires_flush
    /\ closed = Open(disk).closed
    /\ file = <<"file", Len(disk)>>
    /\ op = <<"open">>
    /\ ret = ReturnNone
    /\ flushed = FALSE
    /\ caller_filter = JNull
    /\ InitMemCache
    /\ InitSynced
    /\ InitJob

----------------------------------------------------------------------------
(* Actions: one per method of Collection.  op names the last call and the  *)
(* arguments the properties below speak about; ret is what it returned.    *)

DoSetItem(ids, ds) ==
    \E id \in ids, doc \in ds :
        Call(<<"set">>, SetItem(Self, id, doc))

DoInsertOne(ds) ==
    \E doc \in ds, uuid \in Uuid4Strings :
        Call(<<"insert_one", primary_key \in DOMAIN doc>>, InsertOne(Self, doc, uuid))

DoDelItem ==
    \E id \in UserIds : Call(<<"delete">>, DelItem(Self, id))

DoClear == Call(<<"clear">>, Clear(Self))

DoUpdate(dss) ==
    \E ds \in dss, u1 \in Uuid4Strings, u2 \in Uuid4Strings :
        Call(<<"update">>, Update(Self, ds, <<u1, u2>>))

DoReplaceOne(fs, ds) ==
    \E filter \in fs, doc \in ds, upsert \in BOOLEAN, uuid \in Uuid4Strings :
        \E r \in ReplaceOne(Self, filter, doc, upsert, uuid) :
            CallFiltered(<<"replace_one", filter, doc, upsert>>, r,
                         FilterAfterReplaceOne(Self, filter))

DoDeleteMany(fs) ==
    \E filter \in fs :
        CallFiltered(<<"delete_many", filter>>, DeleteMany(Self, filter),
                     FilterAfterFind(Self, filter))

DoDeleteOne(fs) ==
    \E filter \in fs :
        \E r \in DeleteOne(Self, filter) :
            CallFiltered(<<"delete_one", filter>>, r, FilterAfterFind(Self, filter))

DoFind(fs) ==
    \E filter \in fs :
        \E r \in Find(Self, filter, 0) :
            CallFiltered(<<"find", filter>>, r, FilterAfterFind(Self, filter))

\* Collection.find with a limit
DoFindLimit(fs, limits) ==
    \E filter \in fs, limit \in limits :
        \E r \in Find(Self, filter, limit) :
            CallFiltered(<<"find", filter, limit>>, r, FilterAfterFind(Self, filter))

DoFindOne(fs) ==
    \E filter \in fs :
        \E r \in FindOne(Self, filter) :
            CallFiltered(<<"find_one", filter>>, r, FilterAfterFind(Self, filter))

DoIndex ==
    \E key \in {<<"x">>, <<primary_key>>}, build \in BOOLEAN :
        Call(<<"index", key, build>>, Index(Self, key, build))

DoGetItem ==
    \E id \in UserIds : Call(<<"get", id>>, GetItem(Self, id))

DoLen == Call(<<"len">>, LenOf(Self))

DoContains == \E id \in AllIds : Call(<<"contains", id>>, Contains(Self, id))

DoIter == Call(<<"iter">>, Iter(Self))

DoIds == Call(<<"ids">>, IdsOf(Self))

DoDump == Call(<<"dump">>, Dump(Self))

\* Collection.flush
DoFlush ==
    /\ (~closed /\ requires_flush) => file[2] + Len(order) <= MaxFileLines
    /\ LET r == Flush(Self, disk, file[2])
       IN  /\ Becomes(r.c)
           /\ disk' = r.content
           /\ file' = IF file[1] = "file" THEN <<"file", r.pos>> ELSE file
           /\ op' = <<"flush">>
           /\ ret' = r.out
           /\ flushed' = (flushed \/ ~Raised(r.out))
           /\ caller_filter' = JNull
           /\ UNCHANGED <<memcache_vars, synced_vars, job_vars>>

\* Collection.close
DoClose ==
    /\ (~closed /\ requires_flush) => file[2] + Len(order) <= MaxFileLines
    /\ IF file[1] = "file"
       THEN LET r == Flush(Self, disk, file[2])
            IN  /\ Becomes([r.c EXCEPT !.indexes = EmptyMap, !.docs = EmptyMap,
                                       !.order = <<>>, !.closed = TRUE])
                /\ disk' = r.content
                /\ file' = <<"None", 0>>
                /\ ret' = r.out
                /\ flushed' = (flushed \/ ~Raised(r.out))
       ELSE /\ UNCHANGED <<docs, order, dirty, indexes, requires_flush, closed,
                           file, disk, flushed>>
            /\ ret' = ReturnNone
    /\ op' = <<"close">>
    /\ caller_filter' = JNull
    /\ UNCHANGED <<memcache_vars, synced_vars, job_vars>>

\* Collection.flush when the file fails
DoFlushFailing ==
    /\ ~closed /\ requires_flush
    /\ file[2] + Len(order) <= MaxFileLines
    /\ \E stage \in 0..(Len(order) + 1) :
         LET r == FlushFailing(Self, disk, file[2], stage)
         IN  /\ Becomes(r.c)
             /\ disk' = r.content
             /\ file' = <<"file", r.pos>>
             /\ op' = <<"flush">>
             /\ ret' = r.out
             /\ caller_filter' = JNull
             /\ UNCHANGED <<memcache_vars, synced_vars, job_vars>>
             /\ UNCHANGED flushed

\* The end of a with block on the collection
DoExit ==
    /\ (~closed /\ requires_flush) => file[2] + Len(order) <= MaxFileLines
    /\ \E fault \in BOOLEAN, fails \in BOOLEAN, stage \in 0..(Len(order) + 1) :
         /\ fails => (~closed /\ requires_flush)
         /\ ~fails => stage = 0
         /\ LET r == Exit(Self, file, disk, fault, fails, stage)
            IN  /\ Becomes(r.c)
                /\ disk' = r.content
                /\ file' = r.file
                /\ op' = <<"exit", fault>>
                /\ ret' = r.out
                /\ flushed' = (flushed \/ (file[1] = "file" /\ ~Raised(r.out)))
                /\ caller_filter' = JNull
                /\ UNCHANGED <<memcache_vars, synced_vars, job_vars>>

\* Collection.open on the file the closed collection was backed by
DoOpen ==
    /\ closed
    /\ Becomes(Open(disk))
    /\ file' = <<"file", Len(disk)>>
    /\ UNCHANGED disk
    /\ op' = <<"open">>
    /\ ret' = ReturnNone
    /\ flushed' = FALSE
    /\ caller_filter' = JNull
    /\ UNCHANGED <<memcache_vars, synced_vars, job_vars>>

\* The caller changes the document get() returned: it assigns to a key of
\* it, which changes the returned mapping only, or it changes a value inside
\* a nested mapping, which is the very object the stored document holds
DoMutateReturned ==
    /\ op[1] = "get" /\ ret[1] = "doc"
    /\ \/ \E k \in DOMAIN ret[3][1] :
              /\ ret' = <<"doc", ret[2],
                          <<[ret[3][1] EXCEPT ![k] = JInt(2)], ret[3][2] \ {k}>> >>
              /\ docs' = docs
       \/ \E k \in ret[3][2] :
              /\ ret' = <<"doc", ret[2],
                          <<[ret[3][1] EXCEPT
                               ![k] = JDict([j \in DOMAIN ret[3][1][k][2] |-> JInt(2)])],
                            ret[3][2]>> >>
              /\ docs' = [docs EXCEPT
                            ![ret[2]][k] = JDict([j \in DOMAIN docs[ret[2]][k][2] |-> JInt(2)])]
    /\ op' = <<"mutate", ret[2]>>
    /\ UNCHANGED <<order, dirty, indexes, requires_flush, closed, file, disk,
                   flushed, caller_filter>>
    /\ UNCHANGED <<memcache_vars, synced_vars, job_vars>>

----------------------------------------------------------------------------
(* Actions of a MemCache *)

\* The fields of the cache become those of m after a call of it
CacheCall(name, r) ==
    /\ mem_data' = r.c.data
    /\ misses' = r.c.misses
    /\ warned' = r.c.warned
    /\ op' = name
    /\ ret' = r.out
    /\ UNCHANGED <<collection_vars, synced_vars, job_vars>>

\* cache[key] = value
DoCacheSet ==
    \E key \in CacheKeys, v \in 1..MaxValue :
        CacheCall(<<"cache_set", key, JInt(v)>>,
                  MemCacheSetItem(MemCacheSelf, key, JInt(v)))

\* cache[key]
DoCacheGet ==
    \E key \in CacheKeys :
        /\ key \notin DOMAIN mem_data => misses < MaxMisses
        /\ CacheCall(<<"cache_get", key>>, MemCacheGetItem(MemCacheSelf, key))


----------------------------------------------------------------------------
(* Actions of a CachedSyncedCollection *)

\* The fields of the collection become those of s after a call of it
SyncedCall(name, s) ==
    /\ data' = s.data
    /\ backend' = s.backend
    /\ cache' = s.cache
    /\ suspend_sync' = s.suspend
    /\ op' = name
    /\ ret' = ReturnNone
    /\ UNCHANGED <<collection_vars, memcache_vars, job_vars>>

DoSync == \E who \in Collections : SyncedCall(<<"sync", who>>, Sync(SyncedSelf, who))

DoLoad == \E who \in Collections : SyncedCall(<<"load", who>>, Load(SyncedSelf, who))

DoRefreshCache == SyncedCall(<<"refresh_cache">>, RefreshCache(SyncedSelf))

\* The program changes the data the collection holds in memory
DoAssign ==
    \E v \in 1..MaxValue :
        SyncedCall(<<"assign">>, [SyncedSelf EXCEPT !.data = JInt(v)])

\* A block that suspends synchronisation is entered
DoSuspend ==
    \E who \in Collections :
        /\ suspend_sync[who] < MaxSuspend
        /\ SyncedCall(<<"suspend", who>>,
                      [SyncedSelf EXCEPT !.suspend[who] = @ + 1])

\* A block that suspends synchronisation is left
DoResume ==
    \E who \in Collections :
        /\ suspend_sync[who] > 0
        /\ SyncedCall(<<"resume", who>>,
                      [SyncedSelf EXCEPT !.suspend[who] = @ - 1])

----------------------------------------------------------------------------
(* Actions of the Job objects *)

\* A step of the instance i that leaves it as r.j and the document as r.doc
JobCall(name, i, r) ==
    /\ instances' = [instances EXCEPT ![i] = r.j]
    /\ job_doc' = r.doc
    /\ op' = name
    /\ ret' = r.out
    /\ UNCHANGED <<collection_vars, memcache_vars, synced_vars>>

\* Job.__init__: one pass of the loop of _obtain_id
DoObtainId ==
    \E i \in Instances, dup \in BOOLEAN :
        /\ instances[i].pc \in {"new", "obtain"}
        /\ JobCall(<<"obtain_id", i, dup>>, i, UpsertAttempt(instances[i], job_doc, dup))

\* Job.__init__: the end of _obtain_id
DoFetchSpec ==
    \E i \in Instances :
        /\ instances[i].pc = "fetch"
        /\ JobCall(<<"fetch", i>>, i, FetchSpec(instances[i], job_doc))

\* with job:
DoEnter ==
    \E i \in Instances :
        /\ instances[i].pc = "ready"
        /\ JobCall(<<"enter", i>>, i, Enter(instances[i], job_doc, i))

\* The end of the with block, with an exception (fault) or without
DoJobExit ==
    \E i \in Instances, fault \in BOOLEAN :
        /\ instances[i].pc = "open"
        /\ (fault /\ QueryMatches(job_doc, instances[i].spec))
               => Len(Push(job_doc, "error", "err")[2]["error"]) <= MaxErrors
        /\ JobCall(<<"job_exit", i, fault>>, i, JobExit(instances[i], job_doc, i, fault))

\* Job.num_open_instances
DoNumOpenInstances ==
    \E i \in Instances :
        /\ instances[i].pc \in {"ready", "open"}
        /\ JobCall(<<"num_open_instances", i>>, i,
                   [j |-> instances[i], doc |-> job_doc,
                    out |-> <<"int", NumOpenInstances(job_doc)>>])

\* Job.remove, called outside of the with block, up to the call of _remove
DoRemove ==
    \E i \in Instances, force \in BOOLEAN :
        /\ instances[i].pc = "ready"
        /\ JobCall(<<"remove", i, force>>, i, RemoveCheck(instances[i], job_doc, force))

\* Job.remove: _remove
DoRemoveRun ==
    \E i \in Instances :
        /\ instances[i].pc = "removing"
        /\ JobCall(<<"_remove", i>>, i, Remove(instances[i], job_doc))

----------------------------------------------------------------------------
(* Specifications *)

\* Documents are stored, replaced and deleted, and queried through the
\* indexes
Next ==
    \/ DoSetItem(IdArgs, Bodies \cup {WithId(("x" :> JInt(1)), JStr("a"))})
    \/ DoInsertOne(DocArgs)
    \/ DoDelItem
    \/ DoClear
    \/ DoUpdate({<<>>, <<("x" :> JInt(2))>>,
                 <<("x" :> JInt(2)), WithId(("x" :> JInt(1)), JInt(7))>>})
    \/ DoReplaceOne({PrimaryKeyOnly, FieldFilter(<<"x">>, JInt(1))},
                    {("x" :> JInt(2)), WithId(("x" :> JInt(1)), JStr("a"))})
    \/ DoDeleteMany({FieldFilter(<<"x">>, JInt(1))})
    \/ DoDeleteOne({FieldFilter(<<"x">>, JInt(1))})
    \/ DoFind(Filters \ {JNull, FieldFilter(<<"n">>, FieldFilter(<<"v">>, JInt(1)))})
    \/ DoIndex

Spec == Init /\ [][Next]_vars

\* The life of a file-backed collection: documents are stored and deleted,
\* the collection is flushed, closed and opened again; on the closed
\* collection every method is called
ClosedCalls ==
    \/ DoInsertOne({("x" :> JInt(1))})
    \/ DoUpdate({<<>>, <<("x" :> JInt(2))>>})
    \/ DoReplaceOne({PrimaryKeyOnly, FieldFilter(<<"x">>, JInt(1))}, {("x" :> JInt(2))})
    \/ DoDeleteMany({FieldFilter(<<"x">>, JInt(1))})
    \/ DoDeleteOne({FieldFilter(<<"x">>, JInt(1))})
    \/ DoFind({FieldFilter(<<"x">>, JInt(1)), Expr(<<>>)})
    \/ DoFindOne({FieldFilter(<<"x">>, JInt(1))})
    \/ DoIndex
    \/ DoGetItem
    \/ DoLen
    \/ DoContains
    \/ DoIter
    \/ DoIds
    \/ DoDump

NextFile ==
    \/ DoSetItem({JStr(i) : i \in UserIds}, {("x" :> JInt(v)) : v \in 1..MaxValue})
    \/ DoDelItem
    \/ DoClear
    \/ DoFlush
    \/ DoClose
    \/ DoOpen
    \/ (closed /\ ClosedCalls)

SpecFile == Init /\ [][NextFile]_vars

\* A caller reads documents and changes what it was handed
NextAlias ==
    \/ DoSetItem({JStr(i) : i \in UserIds}, Bodies)
    \/ DoDelItem
    \/ DoGetItem
    \/ DoMutateReturned
    \/ DoFind(FieldFilters)
    \/ DoFindOne(FieldFilters)

SpecAlias == Init /\ [][NextAlias]_vars

\* Documents are stored and deleted, and queried with logical operators
\* and with a limit
NextQuery ==
    \/ DoSetItem({JStr(i) : i \in UserIds}, {("x" :> JInt(v)) : v \in 1..MaxValue})
    \/ DoDelItem
    \/ DoFindLimit(SubFilters, 0..MaxLimit)
    \/ DoFindLimit(LogicalFilters, {0})

SpecQuery == Init /\ [][NextQuery]_vars

\* Documents are stored, deleted by id, deleted and replaced through filters
\* (a field predicate, a primary key, and both) and listed
EditFilters ==
    {FieldFilter(<<"x">>, JInt(1)), PrimaryKeyOnly,
     Expr(PrimaryKeyOnly[2] \o FieldFilter(<<"x">>, JInt(1))[2])}

NextEdit ==
    \/ DoSetItem({JStr(i) : i \in UserIds}, {("x" :> JInt(v)) : v \in 1..MaxValue})
    \/ DoDeleteMany(EditFilters)
    \/ DoDeleteOne(EditFilters)
    \/ DoReplaceOne(EditFilters, {("x" :> JInt(MaxValue))})
    \/ DoDelItem
    \/ DoIter
    \/ DoDump

SpecEdit == Init /\ [][NextEdit]_vars

\* Documents are stored and deleted, and queried with field operators and
\* with filters that the grammar of the query language rejects
OperatorBodies ==
    {("x" :> JInt(v)) : v \in 1..MaxValue}
    \cup {("x" :> JDict("v" :> JInt(1))), ("y" :> JInt(1))}

\* Two filters in one mapping, the entries of f first
Beside(f, g) == Expr(f[2] \o g[2])

\* An unknown operator, a $ segment that is not the last one, two $
\* segments, and $and / $or with an argument that is no list or is empty
BadEntries ==
    {FieldFilter(<<"x", "$bogus">>, JInt(1)),
     FieldFilter(<<"x", "$gt", "y">>, JInt(1)),
     FieldFilter(<<"$bogus", "$gt">>, JInt(1)),
     FieldFilter(<<"$and">>, JList(<<>>)),
     FieldFilter(<<"$or">>, JInt(1)),
     FieldFilter(<<"$and">>, FieldFilter(<<"x">>, JInt(1)))}

MalformedFilters ==
    BadEntries
    \cup {Beside(FieldFilter(<<"x">>, JInt(1)), g) : g \in BadEntries}

\* $type with a type name and with names that are none
TypeFilters ==
    {FieldFilter(<<"x", "$type">>, t) : t \in {JStr("int"), JStr("dict"), JInt(1)}}

\* The order comparisons against an integer
CompareFilters ==
    {FieldFilter(<<"x", o>>, JInt(v)) :
        o \in {"$gt", "$gte", "$lt", "$lte"}, v \in {1}}

\* $exists with a boolean and with an argument that is none, on a key and
\* on a key inside a mapping
JBool(b) == <<"bool", b>>

ExistsFilters ==
    {FieldFilter(<<"x", "$exists">>, v) : v \in {JBool(TRUE), JBool(FALSE), JInt(1)}}
    \cup {FieldFilter(<<"x">>, FieldFilter(<<"v", "$exists">>, JBool(b))) : b \in BOOLEAN}

NextOperators ==
    \/ DoSetItem({JStr(i) : i \in UserIds}, OperatorBodies)
    \/ DoDelItem
    \/ DoFind(MalformedFilters)
    \/ DoFind(TypeFilters)
    \/ DoFind(CompareFilters)
    \/ DoFind(ExistsFilters)

SpecOperators == Init /\ [][NextOperators]_vars

\* A file-backed collection is used in with blocks: documents are stored and
\* deleted, the collection is flushed, the block is left, and the file is
\* opened again; the file may fail whenever it is written
NextScope ==
    \/ DoSetItem({JStr(i) : i \in UserIds}, {("x" :> JInt(v)) : v \in 1..MaxValue})
    \/ DoDelItem
    \/ DoFlush
    \/ DoFlushFailing
    \/ DoExit
    \/ DoOpen

SpecScope == Init /\ [][NextScope]_vars

\* Documents are stored and deleted, and found and deleted through filters
\* that hold a primary key and logical operators, at the top and nested
ArgumentFilters ==
    PrimaryKeyFilters
    \cup {FieldFilter(<<primary_key>>, JList(<<>>)),
          And(<<PrimaryKeyOnly>>), Not(PrimaryKeyOnly),
          Or(<<FieldFilter(<<"x">>, JInt(1)), Not(PrimaryKeyOnly)>>),
          FieldFilter(<<"x">>, JInt(1))}

NextArgument ==
    \/ DoSetItem({JStr(i) : i \in UserIds}, {("x" :> JInt(v)) : v \in 1..MaxValue})
    \/ DoDelItem
    \/ DoFind(ArgumentFilters)
    \/ DoFindOne(ArgumentFilters)
    \/ DoDeleteOne(ArgumentFilters)
    \/ DoDeleteMany(ArgumentFilters)

SpecArgument == Init /\ [][NextArgument]_vars

\* A root CachedSyncedCollection and a child of it are synchronised and
\* loaded, inside and outside of blocks that suspend synchronisation, while
\* the data in memory is changed
NextSynced ==
    \/ DoSync
    \/ DoLoad
    \/ DoRefreshCache
    \/ DoAssign
    \/ DoSuspend
    \/ DoResume

SpecSynced == Init /\ [][NextSynced]_vars

\* Job objects of one job are created, enter and leave their with blocks
\* and remove the job, in any interleaving
NextJob ==
    \/ DoObtainId
    \/ DoFetchSpec
    \/ DoEnter
    \/ DoJobExit
    \/ DoNumOpenInstances
    \/ DoRemove
    \/ DoRemoveRun

SpecJob == Init /\ [][NextJob]_vars

\* A MemCache is written and read
NextMemCache ==
    \/ DoCacheSet
    \/ DoCacheGet

SpecMemCache == Init /\ [][NextMemCache]_vars



----------------------------------------------------------------------------
(* Properties *)

\* A filter {k: v} on one field that is not the primary key, v a scalar
IsFieldEquality(f) ==
    /\ f[1] = "expr"
    /\ Len(f[2]) = 1
    /\ f[2][1][1] # <<primary_key>>
    /\ CountDollar(f[2][1][1]) = 0
    /\ f[2][1][2][1] \in {"int", "str", "null"}

\* Resolving the dotted key k on a document yields v: by descent through
\* the nested mappings or under the flat key spelled with dots
Resolves(doc, k, v) ==
    \/ GetValue(JDict(doc), k) = <<"value", v>>
    \/ Len(k) > 1 /\ Join(k) \in DOMAIN doc /\ doc[Join(k)] = v

LinearScan(k, v) == {i \in DOMAIN docs : Resolves(docs[i], k, v)}

\* C1: after any sequence of mutations, find({k: v}) for a (possibly dotted)
\* key k and a scalar v returns exactly the ids of the documents on which k
\* resolves to v: the result read from the index equals a linear scan of
\* the current documents.
C1_FindEqualsLinearScan ==
    (op[1] = "find" /\ IsFieldEquality(op[2]))
        => ret = <<"ids", LinearScan(op[2][2][1][1], op[2][2][1][2])>>

\* C1 witness: documents were changed, and a find on one field returned
\* some but not all of the ids
C1_Witness ==
    /\ op[1] = "find" /\ IsFieldEquality(op[2])
    /\ requires_flush
    /\ ret[1] = "ids" /\ ret[2] # {} /\ ret[2] # DOMAIN docs

\* C2: for a file-backed collection, after any sequence of mutations and
\* then close, opening the same file again yields a collection with exactly
\* the ids and the documents the collection had at close; a document
\* deleted before close is not there after the file is opened again.
C2_CloseReopenRoundTrip ==
    [][(op'[1] = "close" /\ ~closed /\ closed')
         => /\ Open(disk').docs = docs
            /\ Open(disk').order = order]_vars

\* C3: whenever flush runs with requires_flush true, the file afterwards
\* holds exactly one line per current document, in insertion order, and
\* nothing else, whether the file was empty or not when it was opened and
\* also for a second flush.
C3_FlushWritesExactlyTheDocuments ==
    [][(op'[1] = "flush" /\ ~closed /\ requires_flush)
         => disk' = DumpLines(Self)]_vars

\* C4: after close() every operation other than close fails with the
\* closed-handle error, for every argument, and a second close() succeeds.
C4_ClosedHandleError ==
    closed => IF op[1] = "close" THEN ret = ReturnNone ELSE ret = ClosedError

\* C5: get(id) returns a deep copy: no change a caller makes to the
\* returned document, at the top level or inside a nested mapping of it,
\* changes the document stored in the collection.
C5_GetReturnsDeepCopy ==
    [][op'[1] = "mutate" => docs' = docs]_vars

\* C6: for a filter that holds the primary key with a scalar id, find
\* returns the empty set when that id is not in the collection, whatever
\* else the filter holds, and a subset of {id} when it is.
C6_PrimaryKeyShortCircuit ==
    (op[1] = "find" /\ op[2] \in PrimaryKeyFilters)
        => /\ ret[1] = "ids"
           /\ IF PopValue(op[2][2], <<primary_key>>)[2] \in DOMAIN docs
              THEN ret[2] \subseteq {PopValue(op[2][2], <<primary_key>>)[2]}
              ELSE ret[2] = {}

\* C7: in every reachable state of an open collection every id i in docs
\* satisfies docs[i][primary_key] == i, also after operations that end in
\* an error.
C7_PrimaryKeyIsId ==
    ~closed =>
        \A i \in DOMAIN docs :
            primary_key \in DOMAIN docs[i] /\ docs[i][primary_key] = JStr(i)

\* C7 witness: a set was refused for a primary-key mismatch while two
\* documents are stored
C7_Witness ==
    /\ op[1] = "set" /\ ret = Raise("ValueError")
    /\ Cardinality(DOMAIN docs) = 2

\* C8: replace_one returns the id of the document whenever it replaces or
\* inserts one, with the filter {primary_key: id} as with any other filter.
C8_ReplaceOneReturnsId ==
    [][(op'[1] = "replace_one" /\ docs' # docs) => ret'[1] = "id"]_vars

C10_InsertOneFresh ==
    [][(op'[1] = "insert_one" /\ ret'[1] = "id")
         => /\ ret'[2][2] \in DOMAIN docs'
            /\ docs'[ret'[2][2]][primary_key] = ret'[2]
            /\ (~op'[2] => ret'[2][2] \notin DOMAIN docs)]_vars

\* C11: set(id, doc) with an id that is no string fails with a type error,
\* and set(id, doc) with a document whose primary key is present and differs
\* from id fails with a user error (ValueError); in both cases docs, the
\* dirty set, the indexes and requires_flush are left as they were.
C11_SetRejectsBadArguments ==
    [][~closed =>
        /\ \A id \in IdArgs, doc \in DocArgs :
              /\ id[1] # "str"
                    => SetItem(Self, id, doc) = Result(Self, Raise("TypeError"))
              /\ (id[1] = "str" /\ primary_key \in DOMAIN doc
                                /\ doc[primary_key] # id)
                    => SetItem(Self, id, doc) = Result(Self, Raise("ValueError"))
        /\ (op'[1] = "set" /\ ret' \in {Raise("TypeError"), Raise("ValueError")})
              => UNCHANGED <<docs, order, dirty, indexes, requires_flush>>]_vars

\* C11 witness: a set was refused for its id while an index is built, no id
\* is dirty and a document is stored
C11_Witness ==
    /\ op[1] = "set" /\ ret = Raise("TypeError")
    /\ DOMAIN indexes # {} /\ dirty = {} /\ DOMAIN docs # {}

\* Two calls of find have the same outcome: both fail, or both return the
\* same set of ids
SameOutcome(a, b) ==
    \/ Raised(a) /\ Raised(b)
    \/ ~Raised(a) /\ ~Raised(b) /\ a[2] = b[2]

\* The sub-filters under the logical operator of a filter {"$op": [f, ...]}
Operands(filter) == filter[2][Len(filter[2])][2][2]

\* C12: for every filter f and every collection state, find(f) and
\* find({"$and": [f]}) return the same set of ids, or both fail.
C12_AndOfOneFilter ==
    [][(op'[1] = "find" /\ op'[2] \in {And(<<f>>) : f \in SubFilters})
         => SameOutcome(ret', FindAll(Self, Operands(op'[2])[1]).out)]_vars

\* C13: for all filters f and g and every collection state,
\* find({"$or": [f, g]}) is the union of find(f) and find(g); with a field
\* predicate p in the same filter the result is that union intersected
\* with find(p).
C13_OrIsUnion ==
    [][(/\ op'[1] = "find"
        /\ op'[2] \in LogicalFilters
        /\ op'[2][2][Len(op'[2][2])][1] = <<"$or">>
        /\ \A i \in 1..2 : ~Raised(FindAll(Self, Operands(op'[2])[i]).out))
         => /\ ret'[1] = "ids"
            /\ ret'[2] =
                 (FindAll(Self, Operands(op'[2])[1]).out[2]
                    \cup FindAll(Self, Operands(op'[2])[2]).out[2])
                 \cap (IF Len(op'[2][2]) = 1 THEN DOMAIN docs
                       ELSE FindAll(Self, Expr(<<op'[2][2][1]>>)).out[2])]_vars

\* C14: for every filter f and every collection state, find({"$not": f}) is
\* the set of all current ids without find(f).
C14_NotIsComplement ==
    [][(/\ op'[1] = "find"
        /\ op'[2] \in {Not(f) : f \in SubFilters}
        /\ ~Raised(FindAll(Self, op'[2][2][1][2]).out))
         => /\ ret'[1] = "ids"
            /\ ret'[2] = DOMAIN docs \ FindAll(Self, op'[2][2][1][2]).out[2]]_vars

\* What find(filter, limit) may return when find(filter) without a limit
\* has the outcome all
LimitOk(all, got, filter, limit) ==
    IF Raised(all) THEN got = all
    ELSE /\ got[1] = "ids"
         /\ IF limit = 0 THEN got[2] = all[2]
            ELSE /\ got[2] \subseteq all[2]
                 /\ Cardinality(got[2]) =
                      (IF limit < Cardinality(all[2]) THEN limit
                       ELSE Cardinality(all[2]))
                 /\ filter \in {JNull, Expr(<<>>)}
                      => got[2] = {order[i] : i \in 1..Cardinality(got[2])}

\* C15: for every filter f, find(f, limit=0) returns all matches; for a
\* limit n > 0, find(f, limit=n) returns a subset of find(f) with exactly
\* min(n, |find(f)|) ids, and for the null or the empty filter these are
\* the first n ids in insertion order.
C15_LimitCutsResult ==
    [][op'[1] = "find"
         => LimitOk(FindAll(Self, op'[2]).out, ret', op'[2], op'[3])]_vars

\* C15 witness: of two documents, find with the empty filter and limit 1
\* returned the one inserted first
C15_Witness ==
    /\ op[1] = "find" /\ op[2] = Expr(<<>>) /\ op[3] = 1
    /\ Len(order) = 2 /\ ret = <<"ids", {order[1]}>>

\* The ids in the buckets of every index
Indexed(ixs) == UNION {AllGroups(ixs[k]) : k \in DOMAIN ixs}

\* C16: after delete(id) of an existing id, at once and without any index
\* refresh, id is not in docs, in no bucket of any index and not in the
\* dirty set, requires_flush is true, and every other document is as it was.
C16_DeleteScrubs ==
    [][(op'[1] = "delete" /\ ~Raised(ret'))
         => \E id \in DOMAIN docs :
              /\ DOMAIN docs' = DOMAIN docs \ {id}
              /\ \A i \in DOMAIN docs' : docs'[i] = docs[i]
              /\ id \notin Indexed(indexes')
              /\ id \notin dirty'
              /\ requires_flush']_vars

\* C16 witness: a delete returned, and the document that is left is in the
\* buckets of an index
C16_Witness ==
    /\ op[1] = "delete" /\ ~Raised(ret)
    /\ DOMAIN docs # {} /\ Indexed(indexes) = DOMAIN docs

\* A document matches a filter made of a primary key and field predicates
Matches(doc, f) ==
    \A i \in 1..Len(f[2]) :
        IF f[2][i][1] = <<primary_key>> THEN doc[primary_key] = f[2][i][2]
        ELSE Resolves(doc, f[2][i][1], f[2][i][2])

Matching(f) == {i \in DOMAIN docs : Matches(docs[i], f)}

\* C17: delete_many(f) removes exactly the documents whose ids find(f)
\* returned just before the call and leaves every other document as it was;
\* afterwards find(f) returns the empty set.
C17_DeleteManyRemovesMatches ==
    [][(op'[1] = "delete_many" /\ ~Raised(ret'))
         => /\ DOMAIN docs' = DOMAIN docs \ FindAll(Self, op'[2]).out[2]
            /\ \A i \in DOMAIN docs' : docs'[i] = docs[i]
            /\ ~Raised(FindAll(Self', op'[2]).out)
            /\ FindAll(Self', op'[2]).out[2] = {}]_vars

\* C18: delete_one(f) and replace_one(f, r, upsert=False) with a valid
\* filter f that matches no document, also one that names a primary key
\* not in the collection, return without an error and leave docs, the
\* dirty set and requires_flush as they were.
C18_NoMatchChangesNothing ==
    [][(/\ op'[1] = "delete_one" \/ (op'[1] = "replace_one" /\ ~op'[4])
        /\ Matching(op'[2]) = {})
         => /\ ~Raised(ret')
            /\ UNCHANGED <<docs, order, dirty, requires_flush>>]_vars

\* C19: replace_one(f, r, upsert) with a replacement r without primary key:
\* if some document matches f, exactly one matching document is replaced by
\* r under its old id and the number of documents stays; if none matches
\* and upsert is true, exactly one document is added; if none matches and
\* upsert is false, nothing changes.
C19_ReplaceOneEffect ==
    [][(op'[1] = "replace_one" /\ primary_key \notin DOMAIN op'[3])
         => IF Matching(op'[2]) # {}
            THEN \E i \in Matching(op'[2]) :
                    docs' = [docs EXCEPT ![i] = WithId(op'[3], JStr(i))]
            ELSE IF op'[4]
            THEN \E new \in AllIds \ DOMAIN docs :
                    /\ DOMAIN docs' = DOMAIN docs \cup {new}
                    /\ docs'[new] = WithId(op'[3], JStr(new))
                    /\ \A i \in DOMAIN docs : docs'[i] = docs[i]
            ELSE docs' = docs]_vars

\* The ids of the documents in the order in which iteration and dump list them
Listing(c) ==
    [i \in 1..Len(Iter(c).out[2]) |-> Iter(c).out[2][i][primary_key][2]]

DumpListing(c) ==
    [i \in 1..Len(Dump(c).out[2]) |-> LoadLine(Dump(c).out[2][i])[primary_key][2]]

Kept(listing, ids) == SelectSeq(listing, LAMBDA i : i \in ids)

\* C20: iteration and dump list the documents in the order in which their
\* ids were first inserted: across every call on an open collection the ids
\* that stay keep their relative order (so setting a present id keeps its
\* position), the ids that are new come after all of them (so an id deleted
\* and inserted again moves to the end), and dump lists what iteration lists.
C20_InsertionOrder ==
    [][(~closed /\ ~closed')
         => /\ DumpListing(Self') = Listing(Self')
            /\ Kept(Listing(Self'), DOMAIN docs) = Kept(Listing(Self), DOMAIN docs')
            /\ Listing(Self') = Kept(Listing(Self'), DOMAIN docs)
                                   \o Kept(Listing(Self'), AllIds \ DOMAIN docs)]_vars

\* A present id, the first of two, has just been set again and is still the first
C20_Witness ==
    /\ op[1] = "set" /\ ~Raised(ret)
    /\ Len(order) = 2 /\ dirty = {order[1]}

\* The entry <<k, v>> of a filter breaks the grammar of the query language
BadEntry(k, v) ==
    IF k \in {<<"$and">>, <<"$or">>}
    THEN v[1] # "list" \/ Len(v[2]) = 0
    ELSE /\ k # <<"$not">>
         /\ \/ CountDollar(k) > 1
            \/ CountDollar(k) = 1 /\ k[Len(k)] \notin INDEX_OPERATORS \cup {"$exists"}

Malformed(f) ==
    /\ f[1] = "expr"
    /\ \E i \in 1..Len(f[2]) : BadEntry(f[2][i][1], f[2][i][2])

UserError(out) == Raised(out) /\ out[2] \in {"KeyError", "ValueError"}

\* C21: find with a malformed filter (an unknown $op, a $ segment that is
\* not the last segment of its key, more than one $ in a key, $and or $or
\* with an argument that is no list or is an empty list) fails with a user
\* error in every state of the collection, whatever the documents and the
\* other entries of the filter are.
C21_MalformedFilterFails ==
    (op[1] = "find" /\ Malformed(op[2])) => UserError(ret)

\* A filter of one entry whose key ends with the operator o
IsOperatorQuery(f, o) ==
    /\ f[1] = "expr" /\ Len(f[2]) = 1
    /\ CountDollar(f[2][1][1]) = 1
    /\ f[2][1][1][Len(f[2][1][1])] = o

\* C22: find with a $type operator whose argument is none of int, float,
\* bool, str, list, null fails with a user error in every state of the
\* collection, also when no document has a value for the key.
C22_UnknownTypeFails ==
    (/\ op[1] = "find" /\ IsOperatorQuery(op[2], "$type")
     /\ ~(op[2][2][1][2][1] = "str" /\ op[2][2][1][2][2] \in TYPES))
        => UserError(ret)

\* The integer a stands in the relation o to the integer b
Holds(o, a, b) ==
    \/ o = "$gt" /\ a > b
    \/ o = "$gte" /\ a >= b
    \/ o = "$lt" /\ a < b
    \/ o = "$lte" /\ a <= b

\* The ids of the documents on which key resolves to an integer that
\* stands in the relation o to the integer b
ComparableMatches(key, o, b) ==
    {i \in DOMAIN docs :
        /\ GetValue(JDict(docs[i]), key)[1] = "value"
        /\ GetValue(JDict(docs[i]), key)[2][1] = "int"
        /\ Holds(o, GetValue(JDict(docs[i]), key)[2][2], b)}

\* C23: a $gt / $gte / $lt / $lte query with an integer argument, on a key
\* that holds in some documents a value that cannot be ordered against an
\* integer (the placeholder of a mapping), returns without an error exactly the ids
\* of the documents whose value is an integer in that relation.
C23_IncomparableDoesNotMatch ==
    (/\ op[1] = "find"
     /\ \E o \in {"$gt", "$gte", "$lt", "$lte"} : IsOperatorQuery(op[2], o)
     /\ op[2][2][1][2][1] = "int")
        => ret = <<"ids", ComparableMatches(KeyOf(op[2][2][1][1]),
                                            OperatorOf(op[2][2][1][1]),
                                            op[2][2][1][2][2])>>

\* C24: no index holds an empty bucket: a bucket whose last id is taken out
\* by an overwrite or a delete is removed from the index, so every index
\* that index() returns and every index a find or index() call has
\* refreshed is without one.
C24_NoEmptyBucket ==
    \A k \in DOMAIN indexes : \A v \in DOMAIN indexes[k] : indexes[k][v] # {}

\* The document loaded with x = 1 holds another value now, the index on x
\* has been refreshed and has no bucket for 1
C24_Witness ==
    /\ op[1] \in {"find", "index"} /\ ~Raised(ret)
    /\ disk # <<>> /\ "a" \in DOMAIN docs
    /\ "x" \in DOMAIN docs["a"] /\ docs["a"]["x"] = JInt(2)
    /\ <<"x">> \in DOMAIN indexes
    /\ DOMAIN indexes[<<"x">>] = {JInt(2)}
    /\ dirty = {}

\* C25: index(primary_key) always fails; index(k, build=False) for a key
\* whose index has not been built fails with not-found and creates no
\* index; index(k, build=True) creates the index, so that index(k,
\* build=False) called next succeeds.
C25_IndexBuild ==
    [][op'[1] = "index"
         => /\ op'[2] = <<primary_key>>
                 => Raised(ret') /\ indexes' = indexes
            /\ (op'[2] # <<primary_key>> /\ ~op'[3] /\ op'[2] \notin DOMAIN indexes)
                 => ret' = Raise("KeyError") /\ indexes' = indexes
            /\ (op'[2] # <<primary_key>> /\ op'[3])
                 => /\ ~Raised(ret')
                    /\ op'[2] \in DOMAIN indexes'
                    /\ ~Raised(Index(Self', op'[2], FALSE).out)]_vars

\* index(k, build=False) has returned the index on a collection with documents
C25_Witness ==
    /\ op = <<"index", <<"x">>, FALSE>> /\ ~Raised(ret)
    /\ docs # EmptyMap /\ <<"x">> \in DOMAIN indexes

C27_FailedFlushKeepsFlag ==
    [][op'[1] = "flush"
         => /\ ret' = Raise("OSError")
                 => requires_flush' /\ docs' = docs /\ order' = order
            /\ (~closed /\ ~requires_flush)
                 => disk' = disk /\ file' = file /\ ~Raised(ret')]_vars

\* A flush has failed after it wrote a part of the documents
C27_Witness ==
    /\ op[1] = "flush" /\ ret = Raise("OSError")
    /\ requires_flush /\ Len(order) = 2 /\ Len(disk) = file[2] /\ Len(disk) > 0

\* The canonical values the key k resolves to on a document: the value the
\* descent through the nested mappings ends at (the placeholder when it is
\* a mapping) and the value under the flat key spelled with dots
CanonicalValues(doc, k) ==
    (IF GetValue(JDict(doc), k)[1] # "value" THEN {}
     ELSE IF GetValue(JDict(doc), k)[2][1] = "dict" THEN {DictPlaceholder}
     ELSE {EncodeTree(GetValue(JDict(doc), k)[2])})
    \cup (IF Len(k) > 1 /\ Join(k) \in DOMAIN doc
          THEN {EncodeTree(doc[Join(k)])} ELSE {})

\* The values v with i in indexes[k][v]
BucketsOf(k, i) == {v \in DOMAIN indexes[k] : i \in indexes[k][v]}

\* C28: in every state of an open collection, for every index on a key k
\* and every id i that is not dirty, i is in the bucket indexes[k][v] if and
\* only if i is in docs and k resolves on docs[i] to a value with the
\* canonical form v (the placeholder for a mapping); an id that is not in
\* docs is in no bucket.
C28_IndexMatchesDocuments ==
    ~closed
      => \A k \in DOMAIN indexes :
           /\ \A i \in DOMAIN docs \ dirty :
                BucketsOf(k, i) = CanonicalValues(docs[i], k)
           /\ \A i \in AllIds \ DOMAIN docs : BucketsOf(k, i) = {}

\* An index holds a document with a mapping under the placeholder, and an
\* id is waiting for the refresh
C28_Witness ==
    /\ ~closed /\ dirty # {} /\ <<"x">> \in DOMAIN indexes
    /\ DictPlaceholder \in DOMAIN indexes[<<"x">>]
    /\ indexes[<<"x">>][DictPlaceholder] \ dirty # {}

\* C29: in every state of an open collection the dirty ids are ids of
\* documents (delete and clear take ids out of the dirty set), so the
\* refresh of the indexes, which reads the document of every dirty id,
\* does not fail on a missing document.
C29_DirtyIdsAreDocuments ==
    ~closed => /\ dirty \subseteq DOMAIN docs
               /\ ~Raised(UpdateIndexes(Self).out)

\* A document has been deleted while another one is waiting for the refresh
C29_Witness ==
    /\ ~closed /\ op[1] = "delete" /\ ~Raised(ret)
    /\ dirty # {} /\ dirty = DOMAIN docs

\* The ids of the documents on which the key k resolves to a value
Having(k) == {i \in DOMAIN docs : CanonicalValues(docs[i], k) # {}}

\* The one <<key, value>> pair a filter of one entry flattens to
OnlyPair(f) == TraverseFilter(JsonRoundTrip(f))[1]

C31_IndexSurvives ==
    [][(/\ ~closed /\ ~closed'
        /\ <<"x">> \in DOMAIN indexes) => <<"x">> \in DOMAIN indexes']_vars

\* C32: find, find_one, delete_one and delete_many leave the filter object
\* the caller passed as it was, its primary-key entry and its logical
\* operators included: they are evaluated on a normalised copy.
C32_FilterUntouched ==
    op[1] \in {"find", "find_one", "delete_one", "delete_many"}
        => caller_filter = op[2]

\* delete_many has deleted through a filter that holds a primary key and
\* $or, entries the evaluation pops from the mapping it works on
C32_Witness ==
    /\ op[1] = "delete_many" /\ ~Raised(ret)
    /\ op[2] \in PrimaryKeyFilters /\ Popped(op[2]) = Expr(<<>>)
    /\ Len(op[2][2]) = 2
    /\ "a" \notin DOMAIN docs
    /\ caller_filter = op[2]

\* The collection whose own counter decides a call of who: the root
Deciding(who) == suspend_sync[who] <= 0 /\ suspend_sync["root"] <= 0

C34_KeyValueStore ==
    [][op'[1] = "cache_get"
        => IF op'[2] \in DOMAIN mem_data
           THEN ret' = mem_data[op'[2]] /\ misses' = misses
           ELSE ret' = Raise("KeyError") /\ misses' = misses + 1]_vars

\* The instances inside their with blocks, and whether the job was removed
OpenIds == {i \in Instances : instances[i].pc = "open"}
JobRemoved == \E i \in Instances : instances[i].pc = "removed"

\* The ids in the list 'executing'
Listed(d) == {OpenInstances(d)[n] : n \in 1..NumOpenInstances(d)}

C36_ObtainIdRetries ==
    [][\A i \in Instances :
        /\ (op'[1] = "obtain_id" /\ op'[2] = i) =>
              /\ instances[i].pc \in {"new", "obtain"}
              /\ instances[i].attempt < 3
              /\ IF ~op'[3]
                 THEN instances'[i].pc = "fetch" /\ ~Raised(ret')
                 ELSE IF instances[i].attempt < 2
                 THEN /\ instances'[i].pc = "obtain"
                      /\ instances'[i].attempt = instances[i].attempt + 1
                      /\ ret' = <<"sleep_random", 1>>
                 ELSE /\ instances'[i].pc = "failed"
                      /\ ret' = Raise("RuntimeError")
        /\ (op'[1] = "fetch" /\ op'[2] = i /\ ~Raised(ret')) =>
              /\ instances'[i].pc = "ready"
              /\ job_doc'[1] = "doc" /\ instances'[i].spec = job_doc']_vars

\* The third attempt of an instance has met DuplicateKeyError and ended in
\* RuntimeError, while the other instance obtained its id
C36_Witness ==
    /\ op = <<"obtain_id", 1, TRUE>> /\ ret = Raise("RuntimeError")
    /\ instances[1].pc = "failed"
    /\ instances[2].pc = "ready" /\ instances[2].spec = job_doc

====
